---- MODULE Spec2Model ----
(***************************************************************************)
(* Verification model of the Brief toolchain: lexer, parser, HIR lowering  *)
(* (name resolution), bytecode emitter and register VM.                    *)
(***************************************************************************)
EXTENDS Integers, Sequences, FiniteSets, TLC

VARIABLES
    frames,      \* VM.frames: call stack, last element is the current frame
    vm_state,    \* "idle" (outside run()) or "running" (inside the run() loop)
    vm_result,   \* what the last run() returned
    vm_runtime,  \* VM.runtime is Some(..)
    vm_last,     \* opcode of the instruction run() executed last ("" before any)
    pl_stage,    \* how far the pipeline (lex, parse, lower, emit, run) has got
    pl_prog,     \* index of the program the pipeline is given
    pl_checks,   \* the build checks arithmetic overflow (debug) or wraps (release)
    pl_hir,      \* what lower() returned
    pl_emit,     \* what emit_bytecode() returned, or the panic that ended it
    pl_flow,     \* per emitted chunk, its length and its RET, JMP and JIF instructions
    fe_stage,    \* how far the front end (lex, parse) has got
    lx,          \* the Lexer
    lx_tokens,   \* lex(): tokens
    lx_at_line_start,  \* lex(): at_line_start
    parse_out,   \* what parse() returned: the program and the parse errors
    parser,      \* the Parser, between the iterations of its loops
    parser_at,   \* the loop the Parser is in: "parse", "parse_block", or "returned"
    ck,          \* a chunk under construction: its code and its constant pool
    ck_calls     \* the add_constant calls made on it: constant, index returned, pool size

vm_vars == <<frames, vm_state, vm_result, vm_runtime, vm_last>>
pl_vars == <<pl_stage, pl_prog, pl_checks, pl_hir, pl_emit, pl_flow>>
fe_vars == <<fe_stage, lx, lx_tokens, lx_at_line_start, parse_out, parser, parser_at>>
ck_vars == <<ck, ck_calls>>
vars == <<vm_vars, pl_vars, fe_vars, ck_vars>>

\* ------------------------------------------------------------------------
\* Runtime values (brief-vm/src/value.rs) and constants
\* ------------------------------------------------------------------------
IntV(n) == [t |-> "Int", n |-> n, s |-> ""]
DoubleV(n) == [t |-> "Double", n |-> n, s |-> ""]
BoolV(b) == [t |-> "Bool", n |-> IF b THEN 1 ELSE 0, s |-> ""]
StrV(s) == [t |-> "Str", n |-> 0, s |-> s]
NullV == [t |-> "Null", n |-> 0, s |-> ""]

is_truthy(v) == ~(v = BoolV(FALSE) \/ v = NullV)

\* RuntimeError values carried by Err results
NoValue == NullV
Ok(v) == [kind |-> "ok", value |-> v, err |-> ""]
Err(e) == [kind |-> "err", value |-> NoValue, err |-> e]
NoResult == [kind |-> "none", value |-> NoValue, err |-> ""]

\* ------------------------------------------------------------------------
\* Instructions (brief-bytecode/src/instruction.rs)
\* ------------------------------------------------------------------------
Instr(op, a, b, c) == [op |-> op, a |-> a, b |-> b, c |-> c]
new2(op, a, b) == Instr(op, a, b, 0)
new1(op, a) == Instr(op, a, 0, 0)

\* i16 <-> u16 reinterpretation
AsU16(x) == x % 65536
AsI16(x) == LET u == x % 65536 IN IF u >= 32768 THEN u - 65536 ELSE u

\* The instruction as the code holds it, a 32-bit word [op:8][a:8][b:8][c:8]
\* with op in the low byte; the word is kept as its two 16-bit halves, lo
\* (bits 0..15) and hi (bits 16..31)
Instruction_new(op, a, b, c) == [lo |-> op + a * 256, hi |-> b + c * 256]
Instruction_opcode(w) == w.lo % 256
Instruction_a(w) == (w.lo \div 256) % 256
Instruction_b(w) == w.hi % 256
Instruction_c(w) == (w.hi \div 256) % 256

\* (mutant) the offset read without the cast to i16
Instruction_offset_Unsigned(w) == Instruction_c(w) * 256 + Instruction_b(w)

\* Instruction::offset: ((c << 8) | b) as i16
Instruction_offset(w) == AsI16(Instruction_c(w) * 256 + Instruction_b(w))

\* Instruction::set_offset: (self.0 & 0x0000FFFF) | (b << 16) | (c << 24)
Instruction_set_offset(w, off) ==
    LET u == AsU16(off)
        b == u % 256
        c == (u \div 256) % 256
    IN [lo |-> w.lo % 65536, hi |-> b + c * 256]

\* the same two functions on the fields of an instruction
offset(inst) == AsI16(inst.c * 256 + inst.b)
set_offset(inst, off) ==
    LET u == AsU16(off)
    IN [inst EXCEPT !.b = u % 256, !.c = (u \div 256) % 256]

\* ------------------------------------------------------------------------
\* Chunks and frames (brief-bytecode/src/chunk.rs, brief-vm/src/frame.rs)
\* ------------------------------------------------------------------------
Chunk(code, constants, max_regs) ==
    [code |-> code, constants |-> constants, max_regs |-> max_regs]

\* Frame::new: ip 0 and max_regs registers, all Null
Frame_new(chunk) ==
    [chunk |-> chunk, ip |-> 0, registers |-> [i \in 1..chunk.max_regs |-> NullV]]

\* registers are indexed from 0 in the code, sequences from 1 here
Reg(frame, r) == frame.registers[r + 1]
SetReg(frame, r, v) == [frame EXCEPT !.registers[r + 1] = v]
NumRegs(frame) == Len(frame.registers)

\* result of one helper: the frame after it and "" or the RuntimeError
Fine(frame) == [frame |-> frame, err |-> ""]
Fail(frame, e) == [frame |-> frame, err |-> e]

\* ------------------------------------------------------------------------
\* Arithmetic and comparison helpers (brief-vm/src/vm.rs)
\* ------------------------------------------------------------------------
\* A Double is the rational n / d: DoubleV(n) is the integral n / 1 and carries
\* no d; f64 rounding, infinities and NaN are not represented. i64 overflow is
\* outside the values used.
IsNum(v) == v.t \in {"Int", "Double"}
Abs(x) == IF x < 0 THEN -x ELSE x
RECURSIVE GCD(_, _)
GCD(a, b) == IF b = 0 THEN a ELSE GCD(b, a % b)
Den(v) == IF "d" \in DOMAIN v THEN v.d ELSE 1
\* the Double num / den, den # 0, in lowest terms
DoubleQ(num, den) ==
    LET g == GCD(Abs(num), Abs(den))
        n == (IF den < 0 THEN -num ELSE num) \div g
        d == Abs(den) \div g
    IN IF d = 1 THEN DoubleV(n) ELSE [t |-> "Double", n |-> n, s |-> "", d |-> d]
\* a Double that is no rational: an infinity, NaN or an irrational power
NotRational == [t |-> "Double", n |-> 0, s |-> "", d |-> 0]
NumResult(l, r, num, den) ==
    IF l.t = "Int" /\ r.t = "Int" THEN IntV(num) ELSE DoubleQ(num, den)
\* integer division rounding toward zero (i64 `/`, and f64 `as i64`)
TruncDiv(a, b) ==
    IF (a < 0) # (b < 0) THEN -(Abs(a) \div Abs(b)) ELSE Abs(a) \div Abs(b)

Digit == <<"0", "1", "2", "3", "4", "5", "6", "7", "8", "9">>
RECURSIVE NatToStr(_)
NatToStr(n) == IF n < 10 THEN Digit[n + 1] ELSE NatToStr(n \div 10) \o Digit[(n % 10) + 1]

\* the decimal digits of num / den < 1, at most `left` of them (an f64 has
\* 17 significant digits)
RECURSIVE Fraction(_, _, _)
Fraction(num, den, left) ==
    IF num = 0 \/ left = 0 THEN ""
    ELSE Digit[((num * 10) \div den) + 1] \o Fraction((num * 10) % den, den, left - 1)

\* Value::to_string; a Double is n / d (d is absent when it is 1) and prints
\* without a fraction when it is integral. NaN and infinities are not rendered
to_string(v) ==
    CASE v.t = "Int" -> IF v.n < 0 THEN "-" \o NatToStr(-v.n) ELSE NatToStr(v.n)
      [] v.t = "Double" /\ "d" \notin DOMAIN v ->
             IF v.n < 0 THEN "-" \o NatToStr(-v.n) ELSE NatToStr(v.n)
      [] v.t = "Double" /\ "d" \in DOMAIN v ->
             (IF v.n < 0 THEN "-" ELSE "")
                 \o NatToStr((IF v.n < 0 THEN -v.n ELSE v.n) \div v.d) \o "."
                 \o Fraction((IF v.n < 0 THEN -v.n ELSE v.n) % v.d, v.d, 17)
      [] v.t = "Bool" -> IF v.n = 1 THEN "true" ELSE "false"
      [] v.t = "Str" -> v.s
      [] v.t = "Null" -> "null"

add_value(l, r) ==
    IF IsNum(l) /\ IsNum(r) THEN Ok(NumResult(l, r, l.n * Den(r) + r.n * Den(l), Den(l) * Den(r)))
    ELSE IF l.t = "Str" /\ r.t = "Str" THEN Ok(StrV(l.s \o r.s))
    ELSE IF l.t = "Str" THEN Ok(StrV(l.s \o to_string(r)))
    ELSE IF r.t = "Str" THEN Ok(StrV(to_string(l) \o r.s))
    ELSE Err("TypeMismatch")

sub_value(l, r) ==
    IF IsNum(l) /\ IsNum(r)
    THEN Ok(NumResult(l, r, l.n * Den(r) - r.n * Den(l), Den(l) * Den(r)))
    ELSE Err("TypeMismatch")

mul_value(l, r) ==
    IF IsNum(l) /\ IsNum(r) THEN Ok(NumResult(l, r, l.n * r.n, Den(l) * Den(r)))
    ELSE Err("TypeMismatch")

\* divi_value giving up only on an Int zero divisor: dividing by 0.0 is
\* infinite or NaN, which `as i64` turns into a number
divi_value_IntZeroOnly(l, r) ==
    IF ~(IsNum(l) /\ IsNum(r)) THEN Err("TypeMismatch")
    ELSE IF r.n = 0 THEN (IF r.t = "Int" THEN Err("DivisionByZero") ELSE Ok(IntV(0)))
    ELSE Ok(IntV(TruncDiv(l.n * Den(r), Den(l) * r.n)))

\* divf_value with an integer quotient for two Int operands
divf_value_IntQuotient(l, r) ==
    IF ~(IsNum(l) /\ IsNum(r)) THEN Err("TypeMismatch")
    ELSE IF r.n = 0 THEN Err("DivisionByZero")
    ELSE Ok(NumResult(l, r, l.n * Den(r), Den(l) * r.n))

divf_value(l, r) ==
    IF ~(IsNum(l) /\ IsNum(r)) THEN Err("TypeMismatch")
    ELSE IF r.n = 0 THEN Err("DivisionByZero")
    ELSE Ok(DoubleQ(l.n * Den(r), Den(l) * r.n))

divi_value(l, r) ==
    IF ~(IsNum(l) /\ IsNum(r)) THEN Err("TypeMismatch")
    ELSE IF r.n = 0 THEN Err("DivisionByZero")
    ELSE Ok(IntV(TruncDiv(l.n * Den(r), Den(l) * r.n)))

\* i64 % and f64 % (fmod): the remainder has the sign of the dividend
mod_value(l, r) ==
    IF ~(IsNum(l) /\ IsNum(r)) THEN Err("TypeMismatch")
    ELSE IF r.n = 0 THEN Err("DivisionByZero")
    ELSE Ok(NumResult(l, r,
                      l.n * Den(r) - TruncDiv(l.n * Den(r), Den(l) * r.n) * r.n * Den(l),
                      Den(l) * Den(r)))

\* b to the power e >= 0; powf gives 1 for the power 0 of anything
RECURSIVE IntPow(_, _)
IntPow(b, e) == IF e = 0 THEN 1 ELSE b * IntPow(b, e - 1)

\* powf: exact for an integral exponent, NotRational otherwise and for a
\* negative power of zero
pow_value(l, r) ==
    IF ~(IsNum(l) /\ IsNum(r)) THEN Err("TypeMismatch")
    ELSE IF Den(r) = 1 /\ r.n >= 0 /\ Den(l) # 0
    THEN Ok(DoubleQ(IntPow(l.n, r.n), IntPow(Den(l), r.n)))
    ELSE IF Den(r) = 1 /\ l.n # 0 /\ Den(l) # 0
    THEN Ok(DoubleQ(IntPow(Den(l), -r.n), IntPow(l.n, -r.n)))
    ELSE Ok(NotRational)

cmp_lt_value(l, r) ==
    IF IsNum(l) /\ IsNum(r) THEN Ok(BoolV(l.n * Den(r) < r.n * Den(l))) ELSE Err("TypeMismatch")
cmp_le_value(l, r) ==
    IF IsNum(l) /\ IsNum(r) THEN Ok(BoolV(l.n * Den(r) <= r.n * Den(l))) ELSE Err("TypeMismatch")
cmp_gt_value(l, r) ==
    IF IsNum(l) /\ IsNum(r) THEN Ok(BoolV(l.n * Den(r) > r.n * Den(l))) ELSE Err("TypeMismatch")
cmp_ge_value(l, r) ==
    IF IsNum(l) /\ IsNum(r) THEN Ok(BoolV(l.n * Den(r) >= r.n * Den(l))) ELSE Err("TypeMismatch")

neg_value(v) ==
    IF v.t = "Int" THEN Ok(IntV(-v.n))
    ELSE IF v.t = "Double" THEN Ok(DoubleQ(-v.n, Den(v)))
    ELSE Err("TypeMismatch")

BinaryOps == {"ADD", "SUB", "MUL", "DIVF", "DIVI", "MOD", "POW",
              "CMP_EQ", "CMP_NE", "CMP_LT", "CMP_LE", "CMP_GT", "CMP_GE"}
UnaryOps == {"NEG", "NOT"}

\* the closure run() passes to binary_op_impl for each opcode
BinaryFn(op, l, r) ==
    CASE op = "ADD" -> add_value(l, r)
      [] op = "SUB" -> sub_value(l, r)
      [] op = "MUL" -> mul_value(l, r)
      [] op = "DIVF" -> divf_value(l, r)
      [] op = "DIVI" -> divi_value(l, r)
      [] op = "MOD" -> mod_value(l, r)
      [] op = "POW" -> pow_value(l, r)
      [] op = "CMP_EQ" -> Ok(BoolV(l = r))
      [] op = "CMP_NE" -> Ok(BoolV(l # r))
      [] op = "CMP_LT" -> cmp_lt_value(l, r)
      [] op = "CMP_LE" -> cmp_le_value(l, r)
      [] op = "CMP_GT" -> cmp_gt_value(l, r)
      [] op = "CMP_GE" -> cmp_ge_value(l, r)

UnaryFn(op, v) ==
    CASE op = "NEG" -> neg_value(v)
      [] op = "NOT" -> Ok(BoolV(~is_truthy(v)))

\* ------------------------------------------------------------------------
\* Built-in runtime (brief-runtime/src/runtime.rs, builtins.rs)
\* ------------------------------------------------------------------------
BuiltinTable == {"print", "len", "int", "dub", "str",
                 "rt_concat2", "rt_concat3", "rt_concat4", "rt_concat5"}

builtin_print(args) ==
    IF Len(args) = 0 THEN Err("CallError") ELSE Ok(NullV)

int_cast(args) ==
    IF Len(args) = 0 THEN Err("CallError")
    ELSE CASE args[1].t = "Int" -> Ok(IntV(args[1].n))
           [] args[1].t = "Double" -> Ok(IntV(TruncDiv(args[1].n, Den(args[1]))))
           [] args[1].t = "Bool" -> Ok(IntV(args[1].n))
           [] args[1].t = "Null" -> Err("CallError")

str_cast(args) ==
    IF Len(args) = 0 THEN Err("CallError") ELSE Ok(StrV(to_string(args[1])))

rt_concat2(args) ==
    IF Len(args) < 2 THEN Err("CallError")
    ELSE Ok(StrV(to_string(args[1]) \o to_string(args[2])))

\* Runtime::call_builtin (len, dub and rt_concat3..5 bodies are not exercised)
call_builtin(name, args) ==
    IF name \notin BuiltinTable THEN Err("CallError")
    ELSE CASE name = "print" -> builtin_print(args)
           [] name = "int" -> int_cast(args)
           [] name = "str" -> str_cast(args)
           [] name = "rt_concat2" -> rt_concat2(args)

\* ------------------------------------------------------------------------
\* Opcode handlers (brief-vm/src/vm.rs); f is the current frame, already advanced
\* ------------------------------------------------------------------------
ConstToValue(c) ==
    CASE c.t = "Int" -> IntV(c.n)
      [] c.t = "Double" -> DoubleQ(c.n, Den(c))
      [] c.t = "Bool" -> BoolV(c.n = 1)
      [] c.t = "Str" -> StrV(c.s)
      [] c.t = "Null" -> NullV

load_constant(f, reg, const_idx) ==
    IF const_idx >= Len(f.chunk.constants) THEN Fail(f, "InvalidConstantIndex")
    ELSE IF reg >= NumRegs(f) THEN Fail(f, "InvalidRegister")
    ELSE Fine(SetReg(f, reg, ConstToValue(f.chunk.constants[const_idx + 1])))

move_register(f, dest, src) ==
    IF src >= NumRegs(f) \/ dest >= NumRegs(f) THEN Fail(f, "InvalidRegister")
    ELSE Fine(SetReg(f, dest, Reg(f, src)))

binary_op_impl(f, dest, left_reg, right_reg, op) ==
    IF left_reg >= NumRegs(f) \/ right_reg >= NumRegs(f) \/ dest >= NumRegs(f)
    THEN Fail(f, "InvalidRegister")
    ELSE LET result == BinaryFn(op, Reg(f, left_reg), Reg(f, right_reg))
         IN IF result.kind = "err" THEN Fail(f, result.err)
            ELSE Fine(SetReg(f, dest, result.value))

unary_op_impl(f, dest, src_reg, op) ==
    IF src_reg >= NumRegs(f) \/ dest >= NumRegs(f) THEN Fail(f, "InvalidRegister")
    ELSE LET result == UnaryFn(op, Reg(f, src_reg))
         IN IF result.kind = "err" THEN Fail(f, result.err)
            ELSE Fine(SetReg(f, dest, result.value))

\* jump without its bound check
jump_Unchecked(f, off) == Fine([f EXCEPT !.ip = f.ip + off])

\* (frame.ip as i32 + offset as i32) as usize: a negative sum becomes a huge
\* usize, which the bound check rejects like a too large one
jump(f, off) ==
    LET new_ip == f.ip + off
    IN IF new_ip < 0 \/ new_ip > Len(f.chunk.code) THEN Fail(f, "CallError")
       ELSE Fine([f EXCEPT !.ip = new_ip])

jump_if_false(f, cond_reg, off) ==
    IF cond_reg >= NumRegs(f) THEN Fail(f, "InvalidRegister")
    ELSE IF ~is_truthy(Reg(f, cond_reg)) THEN jump(f, off)
    ELSE Fine(f)

\* the argument registers callee_reg+1 .. callee_reg+arg_count
ArgRegs(callee_reg, arg_count) == [i \in 1..arg_count |-> callee_reg + i]

\* call taking its arguments from callee_reg on
call_ArgsFromCallee(f, dest, callee_reg, arg_count, runtime) ==
    LET callee == Reg(f, callee_reg)
        result == call_builtin(callee.s, [i \in 1..arg_count |-> Reg(f, callee_reg + i - 1)])
    IN IF callee_reg + arg_count >= NumRegs(f) THEN Fail(f, "InvalidRegister")
       ELSE IF callee.t # "Str" \/ ~runtime THEN Fail(f, "CallError")
       ELSE IF result.kind = "err" THEN Fail(f, result.err)
       ELSE IF dest >= NumRegs(f) THEN Fail(f, "InvalidRegister")
       ELSE Fine(SetReg(f, dest, result.value))

call(f, dest, callee_reg, arg_count, runtime) ==
    IF callee_reg >= NumRegs(f) THEN Fail(f, "InvalidRegister")
    ELSE IF \E i \in 1..arg_count : callee_reg + i >= NumRegs(f)
    THEN Fail(f, "InvalidRegister")
    ELSE LET callee == Reg(f, callee_reg)
             args == [i \in 1..arg_count |-> Reg(f, callee_reg + i)]
         IN IF callee.t # "Str" THEN Fail(f, "CallError")
            ELSE IF ~runtime THEN Fail(f, "CallError")
            ELSE LET result == call_builtin(callee.s, args)
                 IN IF result.kind = "err" THEN Fail(f, result.err)
                    ELSE IF dest >= NumRegs(f) THEN Fail(f, "InvalidRegister")
                    ELSE Fine(SetReg(f, dest, result.value))

print(f, reg) ==
    IF reg >= NumRegs(f) THEN Fail(f, "InvalidRegister") ELSE Fine(f)

\* the match on instruction.opcode() in run(), RET excepted
Exec(f, inst, runtime) ==
    CASE inst.op = "LOADK" -> load_constant(f, inst.a, inst.b)
      [] inst.op = "MOVE" -> move_register(f, inst.a, inst.b)
      [] inst.op \in BinaryOps -> binary_op_impl(f, inst.a, inst.b, inst.c, inst.op)
      [] inst.op \in UnaryOps -> unary_op_impl(f, inst.a, inst.b, inst.op)
      [] inst.op = "JIF" -> jump_if_false(f, inst.a, offset(inst))
      [] inst.op = "JMP" -> jump(f, offset(inst))
      [] inst.op = "CALL" -> call(f, inst.a, inst.b, inst.c, runtime)
      [] inst.op = "PRINT" -> print(f, inst.a)
      [] inst.op \in {"LOADKX", "EXT"} -> Fail(f, "UnknownOpcode")

CurrentFrame == frames[Len(frames)]
HasInstruction(f) == f.ip < Len(f.chunk.code)
CurrentInstruction(f) == f.chunk.code[f.ip + 1]
PopFrame(fs) == SubSeq(fs, 1, Len(fs) - 1)
ReplaceTop(fs, f) == [fs EXCEPT ![Len(fs)] = f]

\* run() is entered
RunEnter ==
    /\ vm_state = "idle"
    /\ vm_state' = "running"
    /\ vm_result' = NoResult
    /\ vm_last' = ""
    /\ UNCHANGED <<frames, vm_runtime>>

\* current_frame_mut()? on an empty stack
RunNoFrame ==
    /\ vm_state = "running"
    /\ frames = <<>>
    /\ vm_state' = "idle"
    /\ vm_result' = Err("StackUnderflow")
    /\ UNCHANGED <<frames, vm_runtime, vm_last>>

\* current_instruction() is None: pop, return Null if that was the last frame
RunEndOfCode ==
    /\ vm_state = "running"
    /\ frames # <<>>
    /\ ~HasInstruction(CurrentFrame)
    /\ frames' = PopFrame(frames)
    /\ vm_last' = "end"
    /\ IF frames' = <<>>
       THEN vm_state' = "idle" /\ vm_result' = Ok(NullV)
       ELSE UNCHANGED <<vm_state, vm_result>>
    /\ UNCHANGED vm_runtime

\* any instruction but RET: advance, execute, return the error if it fails
RunExec ==
    /\ vm_state = "running"
    /\ frames # <<>>
    /\ HasInstruction(CurrentFrame)
    /\ CurrentInstruction(CurrentFrame).op # "RET"
    /\ LET inst == CurrentInstruction(CurrentFrame)
           r == Exec([CurrentFrame EXCEPT !.ip = @ + 1], inst, vm_runtime)
       IN /\ frames' = ReplaceTop(frames, r.frame)
          /\ vm_last' = inst.op
          /\ IF r.err # ""
             THEN vm_state' = "idle" /\ vm_result' = Err(r.err)
             ELSE UNCHANGED <<vm_state, vm_result>>
    /\ UNCHANGED vm_runtime

\* return_value: the value run() returns after RET, with the frames left
return_value(fs, value_reg) ==
    LET f == fs[Len(fs)]
    IN IF value_reg >= NumRegs(f) THEN [frames |-> fs, result |-> Err("InvalidRegister")]
       ELSE [frames |-> PopFrame(fs), result |-> Ok(Reg(f, value_reg))]

\* RET: run() returns whatever return_value returns
RunRet ==
    /\ vm_state = "running"
    /\ frames # <<>>
    /\ HasInstruction(CurrentFrame)
    /\ CurrentInstruction(CurrentFrame).op = "RET"
    /\ LET inst == CurrentInstruction(CurrentFrame)
           r == return_value(ReplaceTop(frames, [CurrentFrame EXCEPT !.ip = @ + 1]), inst.a)
       IN /\ frames' = r.frames
          /\ vm_result' = r.result
    /\ vm_state' = "idle"
    /\ vm_last' = "RET"
    /\ UNCHANGED vm_runtime

VmRun == RunNoFrame \/ RunEndOfCode \/ RunExec \/ RunRet

\* ------------------------------------------------------------------------
\* HIR (brief-hir/src/hir.rs): every node is a record of one shape; kids are
\* the child nodes in source order. A Span is the number of its start
\* position; a node is built with the span 0 and placed with At
\* ------------------------------------------------------------------------
Node(k, name, n, sym, kids) ==
    [k |-> k, name |-> name, n |-> n, sym |-> sym, kids |-> kids, span |-> 0]
At(node, span) == [node EXCEPT !.span = span]

\* SymbolRef::BUILTIN is usize::MAX; any value that is no register index will do
BUILTIN == 0 - 1

Integer(n) == Node("Integer", "", n, 0, <<>>)
Boolean(b) == Node("Boolean", "", IF b THEN 1 ELSE 0, 0, <<>>)
String(s) == Node("String", s, 0, 0, <<>>)
Null == Node("Null", "", 0, 0, <<>>)
Variable(name) == Node("Variable", name, 0, 0, <<>>)
BinaryOp(left, op, right) == Node("BinaryOp", op, 0, 0, <<left, right>>)
UnaryOp(op, expr) == Node("UnaryOp", op, 0, 0, <<expr>>)
Assign(target, value) == Node("Assign", "", 0, 0, <<target, value>>)
Call(callee, args) == Node("Call", "", 0, 0, <<callee>> \o args)
Ternary(condition, then_expr, else_expr) ==
    Node("Ternary", "", 0, 0, <<condition, then_expr, else_expr>>)
\* InterpPart::Text and InterpPart::Ident, and the interpolation of the parts
\* (the parts stay AST in the HIR)
InterpText(text) == Node("Text", text, 0, 0, <<>>)
InterpIdent(name) == Node("Ident", name, 0, 0, <<>>)
Interpolation(parts) == Node("Interpolation", "", 0, 0, parts)

\* statements; an optional part is a sequence of length 0 or 1
VarDecl(name, initializer) == Node("VarDecl", name, 0, 0, initializer)
If(condition, then_branch, else_branch) ==
    Node("If", "", 0, 0, <<condition, then_branch>> \o else_branch)
While(condition, body) == Node("While", "", 0, 0, <<condition, body>>)
Return(value) == Node("Return", "", 0, 0, value)
Break == Node("Break", "", 0, 0, <<>>)
Continue == Node("Continue", "", 0, 0, <<>>)
ExprStmt(expr) == Node("Expr", "", 0, 0, <<expr>>)
Block(statements) == Node("Block", "", 0, 0, statements)

\* declarations: a function's kids are its parameters followed by its body
Param(name) == Node("Param", name, 0, 0, <<>>)
FuncDecl(name, params, body) == Node("FuncDecl", name, Len(params), 0, params \o <<body>>)
FuncParams(f) == SubSeq(f.kids, 1, f.n)
FuncBody(f) == f.kids[f.n + 1]

\* member access and indexing
MemberAccess(object, member) == Node("MemberAccess", member, 0, 0, <<object>>)
Index(object, index) == Node("Index", "", 0, 0, <<object, index>>)

\* constructors and methods have the shape of functions; a class's kids are
\* its constructor (if any) followed by its methods
CtorDecl(name, params, body) == Node("CtorDecl", name, Len(params), 0, params \o <<body>>)
MethodDecl(name, params, body) == Node("MethodDecl", name, Len(params), 0, params \o <<body>>)
ClassDecl(name, constructor, methods) ==
    Node("ClassDecl", name, Len(constructor), 0, constructor \o methods)
ClassCtor(c) == SubSeq(c.kids, 1, c.n)
ClassMethods(c) == SubSeq(c.kids, c.n + 1, Len(c.kids))

\* ------------------------------------------------------------------------
\* AST (brief-ast/src/expr.rs, stmt.rs): the nodes the HIR does not have.
\* An absent optional part of a for statement is the node Absent
\* ------------------------------------------------------------------------
Absent == Node("Absent", "", 0, 0, <<>>)
PostfixOp(expr, op) == Node("PostfixOp", op, 0, 0, <<expr>>)
For(init, condition, increment, body) ==
    Node("For", "", 0, 0, <<init, condition, increment, body>>)
ForIn(var, iterable, body) == Node("ForIn", var, 0, 0, <<iterable, body>>)
\* a case's kids are its patterns followed by its body; a match's kids are
\* the scrutinee, the cases and the else block (if any)
MatchCase(patterns, body) == Node("MatchCase", "", Len(patterns), 0, patterns \o <<body>>)
Match(expr, cases, else_branch) ==
    Node("Match", "", Len(cases), 0, <<expr>> \o cases \o else_branch)
MatchCases(stmt) == SubSeq(stmt.kids, 2, stmt.n + 1)
MatchElse(stmt) == SubSeq(stmt.kids, stmt.n + 2, Len(stmt.kids))

\* ------------------------------------------------------------------------
\* Lexer (brief-lexer/src/lexer.rs, token.rs). A source is a sequence of
\* characters, each a string of length 1; spans are not modelled. Character
\* literals are outside the modelled character set.
\* ------------------------------------------------------------------------
Token(kind, text, n) == [kind |-> kind, text |-> text, n |-> n]

Lexer_new(source) ==
    [source |-> source, pos |-> 0, indent_stack |-> <<0>>, pending_indents |-> <<>>,
     token_queue |-> <<>>, errors |-> <<>>, skip_next_line_start |-> FALSE]

is_at_end(l) == l.pos >= Len(l.source)
\* None is the empty string
peek(l) == IF l.pos < Len(l.source) THEN l.source[l.pos + 1] ELSE ""
peek_next(l) == IF l.pos + 1 < Len(l.source) THEN l.source[l.pos + 2] ELSE ""
advance(l) == IF l.pos < Len(l.source) THEN [l EXCEPT !.pos = @ + 1] ELSE l

\* the first position from `from` on (0-based) whose character is in chars
\* (member) or is not in chars (~member); Len(source) when there is none
Scan(source, from, chars, member) ==
    CHOOSE q \in from..Len(source) :
        /\ \A i \in from..(q - 1) : (source[i + 1] \in chars) # member
        /\ q < Len(source) => (source[q + 1] \in chars) = member

count_and_consume_leading_tabs(l) ==
    LET q == Scan(l.source, l.pos, {"\t"}, FALSE)
    IN [l |-> [l EXCEPT !.pos = q,
                        !.errors = IF q < Len(l.source) /\ l.source[q + 1] = " "
                                   THEN Append(@, "spaces cannot be used for indentation")
                                   ELSE @],
        count |-> q - l.pos]

is_empty_line(l) ==
    LET q == Scan(l.source, l.pos, {" ", "\t"}, FALSE)
        c == Scan(l.source, q, {"\n", "\r", "\t"}, TRUE)
    IN IF q = Len(l.source) THEN TRUE
       ELSE IF l.source[q + 1] \in {"\n", "\r"} THEN TRUE
       ELSE IF l.source[q + 1] = "/" /\ q + 1 < Len(l.source) /\ l.source[q + 2] = "/"
       THEN (IF c = Len(l.source) THEN TRUE ELSE l.source[c + 1] # "\t")
       ELSE FALSE

\* consumes up to and including the line break at or after pos (\r\n is one)
ConsumeLine(l) ==
    LET q == Scan(l.source, l.pos, {"\n", "\r"}, TRUE)
    IN [l EXCEPT !.pos = IF q = Len(l.source) THEN q
                         ELSE IF l.source[q + 1] = "\r" /\ q + 1 < Len(l.source)
                                 /\ l.source[q + 2] = "\n" THEN q + 2
                         ELSE q + 1]

\* handle_indentation queueing a single Indent for an increase of several levels
handle_indentation_OneIndent(l, indent, tokens) ==
    LET stack == l.indent_stack
        current_level == stack[Len(stack)]
        keep == CHOOSE k \in 1..Len(stack) :
                    /\ \A i \in (k + 1)..Len(stack) : stack[i] > indent
                    /\ k = 1 \/ stack[k] <= indent
    IN IF indent > current_level
       THEN [l |-> [l EXCEPT !.indent_stack = @ \o [i \in 1..(indent - current_level) |->
                                                        current_level + i],
                             !.pending_indents = Append(@, Token("Indent", "", 0))],
             tokens |-> tokens]
       ELSE IF indent < current_level
       THEN [l |-> [l EXCEPT !.indent_stack = SubSeq(stack, 1, keep),
                             !.errors = IF stack[keep] # indent
                                        THEN Append(@, "inconsistent indentation")
                                        ELSE @],
             tokens |-> tokens \o [i \in 1..(Len(stack) - keep) |-> Token("Dedent", "", 0)]]
       ELSE [l |-> l, tokens |-> tokens]

handle_indentation(l, indent, tokens) ==
    LET stack == l.indent_stack
        current_level == stack[Len(stack)]
        \* what the popping loop keeps
        keep == CHOOSE k \in 1..Len(stack) :
                    /\ \A i \in (k + 1)..Len(stack) : stack[i] > indent
                    /\ k = 1 \/ stack[k] <= indent
    IN IF indent > current_level
       THEN [l |-> [l EXCEPT !.indent_stack = @ \o [i \in 1..(indent - current_level) |->
                                                        current_level + i],
                             !.pending_indents = @ \o [i \in 1..(indent - current_level) |->
                                                           Token("Indent", "", 0)]],
             tokens |-> tokens]
       ELSE IF indent < current_level
       THEN [l |-> [l EXCEPT !.indent_stack = SubSeq(stack, 1, keep),
                             !.errors = IF stack[keep] # indent
                                        THEN Append(@, "inconsistent indentation")
                                        ELSE @],
             tokens |-> tokens \o [i \in 1..(Len(stack) - keep) |-> Token("Dedent", "", 0)]]
       ELSE [l |-> l, tokens |-> tokens]

Letters == {"a", "b", "c", "d", "e", "f", "g", "h", "i", "j", "k", "l", "m", "n", "o", "p",
            "q", "r", "s", "t", "u", "v", "w", "x", "y", "z", "_",
            "A", "B", "C", "D", "E", "F", "G", "H", "I", "J", "K", "L", "M", "N", "O", "P",
            "Q", "R", "S", "T", "U", "V", "W", "X", "Y", "Z"}
Digits == <<"0", "1", "2", "3", "4", "5", "6", "7", "8", "9">>
IsDigit(ch) == \E d \in 1..10 : Digits[d] = ch

RECURSIVE Text(_)
Text(chars) == IF chars = <<>> THEN "" ELSE chars[1] \o Text(Tail(chars))

\* str::parse::<i64> of a digit string (the sources are too short to overflow)
RECURSIVE ParseInt(_)
ParseInt(chars) ==
    IF chars = <<>> THEN 0
    ELSE 10 * ParseInt(SubSeq(chars, 1, Len(chars) - 1))
         + (CHOOSE d \in 1..10 : Digits[d] = chars[Len(chars)]) - 1

\* TokenKind::from_keyword
from_keyword ==
    <<<<"int", "Int">>, <<"char", "Char">>, <<"str", "Str">>, <<"dub", "Dub">>,
      <<"bool", "Bool">>, <<"if", "If">>, <<"else", "Else">>, <<"while", "While">>,
      <<"for", "For">>, <<"in", "In">>, <<"break", "Break">>, <<"continue", "Continue">>,
      <<"match", "Match">>, <<"case", "Case">>, <<"def", "Def">>, <<"ret", "Ret">>,
      <<"cls", "Cls">>, <<"obj", "Obj">>, <<"const", "Const">>, <<"null", "Null">>,
      <<"true", "True">>, <<"false", "False">>>>

lex_identifier(l) ==
    LET q == Scan(l.source, l.pos, Letters \cup {Digits[d] : d \in 1..10}, FALSE)
        ident == Text(SubSeq(l.source, l.pos + 1, q))
    IN [l |-> [l EXCEPT !.pos = q],
        tok |-> IF \E k \in 1..Len(from_keyword) : from_keyword[k][1] = ident
                THEN Token(from_keyword[CHOOSE k \in 1..Len(from_keyword) :
                                            from_keyword[k][1] = ident][2], "", 0)
                ELSE Token("Identifier", ident, 0)]

\* an integer, or a double with its text: 12, 1.5, 1. and .5 (read as 0.5)
lex_number(l) ==
    LET digits == {Digits[d] : d \in 1..10}
        starts_with_dot == peek(l) = "."
        int_end == IF starts_with_dot THEN l.pos ELSE Scan(l.source, l.pos, digits, FALSE)
        has_decimal == int_end < Len(l.source) /\ l.source[int_end + 1] = "."
        q == IF has_decimal THEN Scan(l.source, int_end + 1, digits, FALSE) ELSE int_end
    IN [l |-> [l EXCEPT !.pos = q],
        tok |-> IF has_decimal
                THEN Token("Double", (IF starts_with_dot THEN "0" ELSE "")
                                     \o Text(SubSeq(l.source, l.pos + 1, q)), 0)
                ELSE Token("Integer", "", ParseInt(SubSeq(l.source, l.pos + 1, q)))]

skip_line_comment(l) ==
    LET q == Scan(l.source, l.pos, {"\n", "\r", "\t"}, TRUE)
    IN IF q < Len(l.source) /\ l.source[q + 1] = "\t" THEN [l EXCEPT !.pos = q]
       ELSE ConsumeLine(l)

\* called with depth 1, after the opening /*
RECURSIVE skip_block_comment(_, _)
skip_block_comment(l, depth) ==
    IF is_at_end(l) \/ depth = 0 THEN l
    ELSE IF peek(l) = "/" /\ peek_next(l) = "*"
    THEN skip_block_comment([l EXCEPT !.pos = @ + 2], depth + 1)
    ELSE IF peek(l) = "*" /\ peek_next(l) = "/"
    THEN skip_block_comment([l EXCEPT !.pos = @ + 2], depth - 1)
    ELSE skip_block_comment(advance(l), depth)

\* the operator and punctuation arms of next_token: first character, the
\* continuations tried in order, and the kind when none of them follows
OperatorArms ==
    <<<<"+", <<<<"=", "PlusAssign">>, <<"+", "Inc">>>>, "Plus">>,
      <<"-", <<<<"=", "MinusAssign">>, <<">", "Arrow">>, <<"-", "Dec">>>>, "Minus">>,
      <<"*", <<<<"=", "StarAssign">>>>, "Star">>,
      <<"/", <<<<"=", "SlashAssign">>>>, "Slash">>,
      <<"%", <<<<"=", "PercentAssign">>>>, "Percent">>,
      <<"=", <<<<"=", "Eq">>>>, "Assign">>,
      <<"!", <<<<"=", "Ne">>>>, "Not">>,
      <<"<", <<<<"=", "Le">>, <<"<", "Shl">>>>, "Lt">>,
      <<">", <<<<"=", "Ge">>, <<">", "Shr">>>>, "Gt">>,
      <<"&", <<<<"&", "And">>>>, "BitAnd">>,
      <<"|", <<<<"|", "Or">>>>, "BitOr">>,
      <<":", <<<<"=", "InitAssign">>>>, "Colon">>,
      <<"^", <<>>, "BitXor">>, <<"~", <<>>, "BitNot">>, <<"?", <<>>, "Question">>,
      <<"(", <<>>, "LeftParen">>, <<")", <<>>, "RightParen">>,
      <<"[", <<>>, "LeftBracket">>, <<"]", <<>>, "RightBracket">>,
      <<"{", <<>>, "LeftBrace">>, <<"}", <<>>, "RightBrace">>,
      <<",", <<>>, "Comma">>, <<";", <<>>, "Semicolon">>, <<".", <<>>, "Dot">>>>

\* l is past the arm's first character
lex_operator(l, arm) ==
    IF \E k \in 1..Len(arm[2]) : arm[2][k][1] = peek(l)
    THEN [l |-> advance(l),
          tok |-> Token(arm[2][CHOOSE k \in 1..Len(arm[2]) : arm[2][k][1] = peek(l)][2], "", 0)]
    ELSE [l |-> l, tok |-> Token(arm[3], "", 0)]

\* lex_escape_sequence, after the backslash: the lexer it leaves and the
\* character it gives ("" is None). '\0' is written NUL and the character of
\* \u{HHHH} is written U+HHHH, whatever the code point
EscapeTable ==
    <<<<"n", "\n">>, <<"t", "\t">>, <<"r", "\r">>, <<"\\", "\\">>, <<"'", "'">>,
      <<"\"", "\"">>, <<"0", "NUL">>>>
HexDigits == {Digits[d] : d \in 1..10}
                 \cup {"a", "b", "c", "d", "e", "f", "A", "B", "C", "D", "E", "F"}

lex_escape_sequence(l) ==
    LET l1 == advance(l)
        q == Scan(l.source, l.pos + 2, HexDigits, FALSE)
        code == Text(SubSeq(l.source, l.pos + 3, q))
    IN IF \E k \in 1..Len(EscapeTable) : EscapeTable[k][1] = peek(l)
       THEN [l |-> l1, ch |-> EscapeTable[CHOOSE k \in 1..Len(EscapeTable) :
                                              EscapeTable[k][1] = peek(l)][2]]
       ELSE IF peek(l) = "u" /\ peek(l1) = "{"
       THEN [l |-> [l EXCEPT !.pos = IF q < Len(l.source) /\ l.source[q + 1] = "}"
                                     THEN q + 1 ELSE q],
             ch |-> IF code = "" THEN "" ELSE "U+" \o code]
       ELSE [l |-> l1, ch |-> ""]

InterpChars == Letters \cup {Digits[d] : d \in 1..10} \cup {".", "(", ")"}

lex_interpolation_ident(l) ==
    LET q == Scan(l.source, l.pos, InterpChars, FALSE)
    IN [l |-> [l EXCEPT !.pos = q], ident |-> SubSeq(l.source, l.pos + 1, q)]

\* the loop of lex_string with current_text = text: the lexer it leaves, with
\* the tokens it queued, and the token it returns
RECURSIVE lex_string_loop(_, _)
lex_string_loop(l, text) ==
    LET closed == advance(l)
        parts == Append(closed.token_queue, Token("StrPart", text, 0))
        e == lex_escape_sequence(advance(l))
        hole == [advance(l) EXCEPT !.token_queue = Append(@, Token("StrPart", text, 0))]
        r == lex_interpolation_ident(hole)
        kind == IF \E i \in 1..Len(r.ident) : r.ident[i] \in {".", "("}
                THEN "InterpPath" ELSE "InterpIdent"
    IN IF is_at_end(l)
       THEN [l |-> [l EXCEPT !.errors = Append(@, "unterminated string")],
             tok |-> Token("StrPart", text, 0)]
       ELSE CASE peek(l) = "\"" ->
                     IF closed.token_queue # <<>>
                     THEN [l |-> [closed EXCEPT !.token_queue = Tail(parts)],
                           tok |-> Head(parts)]
                     ELSE [l |-> closed, tok |-> Token("StrPart", text, 0)]
              [] peek(l) = "\\" -> lex_string_loop(e.l, text \o e.ch)
              [] peek(l) = "&" /\ peek_next(l) = "&" ->
                     lex_string_loop(advance(advance(l)), text \o "&")
              [] peek(l) = "&" /\ peek_next(l) \in InterpChars ->
                     lex_string_loop([r.l EXCEPT !.token_queue =
                                          Append(@, Token(kind, Text(r.ident), 0))], "")
              [] peek(l) = "&" ->
                     lex_string_loop([hole EXCEPT !.errors =
                                          Append(@, "invalid interpolation")], "&")
              [] OTHER -> lex_string_loop(advance(l), text \o peek(l))

\* l is past the opening quote
lex_string(l) == lex_string_loop(l, "")

RECURSIVE next_token(_)
next_token(l) ==
    LET ch == peek(l)
        l1 == advance(l)
        c == skip_line_comment(advance(l1))
    IN IF is_at_end(l) THEN [l |-> l, tok |-> Token("Eof", "", 0)]
       ELSE CASE ch = "/" /\ peek(l1) = "/" ->
                     next_token(IF peek(c) = "\t" THEN advance(c) ELSE c)
              [] ch = "/" /\ peek(l1) = "*" -> next_token(skip_block_comment(advance(l1), 1))
              [] ch = "*" /\ peek(l1) = "*" ->
                     IF peek_next(l1) = "="
                     THEN [l |-> [l EXCEPT !.pos = @ + 3], tok |-> Token("PowAssign", "", 0)]
                     ELSE [l |-> [l EXCEPT !.pos = @ + 2], tok |-> Token("Pow", "", 0)]
              [] ch = "." /\ IsDigit(peek(l1)) -> lex_number(l)
              [] IsDigit(ch) -> lex_number(l)
              [] ch = "\"" -> lex_string(l1)
              [] ch \in Letters -> lex_identifier(l)
              [] ch \in {" ", "\t"} -> next_token(l1)
              [] \E k \in 1..Len(OperatorArms) : OperatorArms[k][1] = ch ->
                     lex_operator(l1, OperatorArms[CHOOSE k \in 1..Len(OperatorArms) :
                                                       OperatorArms[k][1] = ch])
              [] OTHER -> next_token([l1 EXCEPT !.errors = Append(@, "unexpected character")])

\* lex(), lines 93-156: what an iteration does that finds no space, tab or
\* line break at pos; a token of kind Eof ends the loop with nothing pushed
lex_token(l, tokens) ==
    LET flushed == tokens \o l.pending_indents
        l1 == [l EXCEPT !.pending_indents = <<>>]
        r == next_token(l1)
        pushed == Append(flushed, r.tok) \o r.l.token_queue
        l2 == [r.l EXCEPT !.token_queue = <<>>]
    IN IF l1.token_queue # <<>>
       THEN [l |-> [l1 EXCEPT !.token_queue = Tail(@)],
             tokens |-> Append(flushed, Head(l1.token_queue)), at_line_start |-> FALSE]
       ELSE IF r.tok.kind = "Eof"
       THEN [l |-> r.l, tokens |-> flushed, at_line_start |-> FALSE]
       ELSE IF r.tok.kind = "Newline"
       THEN [l |-> [l2 EXCEPT !.skip_next_line_start = FALSE], tokens |-> pushed,
             at_line_start |-> ~l2.skip_next_line_start]
       ELSE IF peek(l2) = "\t"
       THEN [l |-> [advance(l2) EXCEPT
                        !.indent_stack = Append(@, @[Len(@)] + 1)],
             tokens |-> pushed \o <<Token("Newline", "", 0), Token("Indent", "", 0)>>,
             at_line_start |-> FALSE]
       ELSE [l |-> l2, tokens |-> pushed, at_line_start |-> FALSE]

\* lex_finish adding no Newline to a token list that does not end with one
lex_finish_NoNewline(l, tokens) ==
    [l |-> [l EXCEPT !.indent_stack = <<@[1]>>],
     tokens |-> tokens \o [i \in 1..(Len(l.indent_stack) - 1) |-> Token("Dedent", "", 0)]
                       \o <<Token("Eof", "", 0)>>]

\* lex(), lines 159-176: what follows the loop
lex_finish(l, tokens) ==
    LET ended == IF tokens # <<>> /\ tokens[Len(tokens)].kind = "Newline" THEN tokens
                 ELSE Append(tokens, Token("Newline", "", 0))
    IN [l |-> [l EXCEPT !.indent_stack = <<@[1]>>],
        tokens |-> ended \o [i \in 1..(Len(l.indent_stack) - 1) |-> Token("Dedent", "", 0)]
                         \o <<Token("Eof", "", 0)>>]

\* ------------------------------------------------------------------------
\* Parser (brief-parser/src/parser.rs, decl.rs, stmt.rs, expr.rs, ty.rs).
\* A parsing function returns the parser it leaves and the value it built;
\* the tree is built of the nodes above, with an Error node for Expr::Error
\* and Decl::Error. Classes, constants, for, match, array and map types,
\* member access, indexing, ++ and -- are not modelled.
\* ------------------------------------------------------------------------
max_errors == 50

Parser_new(tokens) == [tokens |-> tokens, current |-> 0, errors |-> <<>>, error_count |-> 0]

\* None is the empty string
peek_kind(p) == IF p.current < Len(p.tokens) THEN p.tokens[p.current + 1].kind ELSE ""
Parser_is_at_end(p) == peek_kind(p) \in {"Eof", ""}
Parser_advance(p) == IF Parser_is_at_end(p) THEN p ELSE [p EXCEPT !.current = @ + 1]
check(p, kind) == peek_kind(p) = kind

\* Parser::error through error_at_current
error_at_current(p, message) ==
    IF p.current < Len(p.tokens) /\ p.error_count < max_errors
    THEN [p EXCEPT !.error_count = @ + 1, !.errors = Append(@, message)]
    ELSE p

expect(p, kind, message) ==
    IF check(p, kind) THEN Parser_advance(p) ELSE error_at_current(p, message)

expect_identifier(p, message) ==
    IF check(p, "Identifier")
    THEN [p |-> Parser_advance(p), v |-> p.tokens[p.current + 1].text]
    ELSE [p |-> error_at_current(p, message), v |-> ""]

is_type_keyword(p) == peek_kind(p) \in {"Int", "Char", "Str", "Dub", "Bool"}

\* the loop of synchronize
RECURSIVE SynchronizeLoop(_)
SynchronizeLoop(p) ==
    IF \/ Parser_is_at_end(p)
       \/ p.current > 0 /\ p.tokens[p.current].kind = "Semicolon"
       \/ peek_kind(p) \in {"Newline", "Dedent", "RightParen", "RightBracket", "RightBrace",
                            "Else", "Case", "Match", "Def", "Cls"}
    THEN p
    ELSE SynchronizeLoop(Parser_advance(p))

synchronize(p) == SynchronizeLoop(Parser_advance(p))

\* parse(): the newlines between declarations
RECURSIVE SkipNewlines(_)
SkipNewlines(p) == IF check(p, "Newline") THEN SkipNewlines(Parser_advance(p)) ELSE p

Error == Node("Error", "", 0, 0, <<>>)

\* the base types only
parse_type(p) ==
    IF is_type_keyword(p) THEN Parser_advance(p) ELSE error_at_current(p, "Expected type")

\* the left-associative binary levels of expr.rs, from parse_logical_or to
\* parse_multiplication: the token kinds of each and the operators they make;
\* the operands of a level are parsed by the next one, those of the last by
\* parse_power
BinaryLevels ==
    <<<<<<"Or", "Or">>>>,
      <<<<"And", "And">>>>,
      <<<<"BitOr", "BitOr">>>>,
      <<<<"BitXor", "BitXor">>>>,
      <<<<"BitAnd", "BitAnd">>>>,
      <<<<"Eq", "Eq">>, <<"Ne", "Ne">>>>,
      <<<<"Lt", "Lt">>, <<"Le", "Le">>, <<"Gt", "Gt">>, <<"Ge", "Ge">>>>,
      <<<<"Shl", "Shl">>, <<"Shr", "Shr">>>>,
      <<<<"Plus", "Add">>, <<"Minus", "Sub">>>>,
      <<<<"Star", "Mul">>, <<"Slash", "Div">>, <<"Percent", "Mod">>>>>>

\* the operator a token kind makes among pairs of <<kind, operator>>, "" if none
OperatorOf(pairs, kind) ==
    IF \E k \in 1..Len(pairs) : pairs[k][1] = kind
    THEN pairs[CHOOSE k \in 1..Len(pairs) : pairs[k][1] = kind][2]
    ELSE ""

AssignmentOperators ==
    <<<<"Assign", "Assign">>, <<"InitAssign", "InitAssign">>, <<"PlusAssign", "PlusAssign">>,
      <<"MinusAssign", "MinusAssign">>, <<"StarAssign", "StarAssign">>,
      <<"SlashAssign", "SlashAssign">>, <<"PercentAssign", "PercentAssign">>,
      <<"PowAssign", "PowAssign">>>>

UnaryOperators == <<<<"Not", "Not">>, <<"BitNot", "BitNot">>, <<"Minus", "Neg">>, <<"Plus", "Pos">>>>

RECURSIVE Parse(_, _, _, _)

parse_primary(p) ==
    LET kind == peek_kind(p)
        token == p.tokens[p.current + 1]
        grouped == Parse("parse_expression", Parser_advance(p), 0, 0)
    IN CASE kind = "True" -> [p |-> Parser_advance(p), v |-> Boolean(TRUE)]
         [] kind = "False" -> [p |-> Parser_advance(p), v |-> Boolean(FALSE)]
         [] kind = "Null" -> [p |-> Parser_advance(p), v |-> Null]
         [] kind = "Integer" -> [p |-> Parser_advance(p), v |-> Integer(token.n)]
         [] kind = "Double" ->
                [p |-> Parser_advance(p), v |-> Node("Double", token.text, 0, 0, <<>>)]
         [] kind = "Identifier" -> [p |-> Parser_advance(p), v |-> Variable(token.text)]
         [] is_type_keyword(p) ->
                [p |-> Parser_advance(p),
                 v |-> Variable(from_keyword[CHOOSE k \in 1..Len(from_keyword) :
                                                 from_keyword[k][2] = kind][1])]
         \* parse_grouping
         [] kind = "LeftParen" ->
                [p |-> expect(grouped.p, "RightParen", "Expected ')' after expression"),
                 v |-> grouped.v]
         [] OTHER -> [p |-> error_at_current(p, "Expected expression"), v |-> Error]

\* the argument loop of finish_call, with the arguments parsed so far
finish_call_args(p, args) ==
    LET a == Parse("parse_expression", p, 0, 0)
    IN IF check(a.p, "Comma")
       THEN Parse("finish_call_args", Parser_advance(a.p), Append(args, a.v), 0)
       ELSE [p |-> a.p, v |-> Append(args, a.v)]

\* p is at the '('
finish_call(p, callee) ==
    LET args == IF check(Parser_advance(p), "RightParen")
                THEN [p |-> Parser_advance(p), v |-> <<>>]
                ELSE Parse("finish_call_args", Parser_advance(p), <<>>, 0)
    IN [p |-> expect(args.p, "RightParen", "Expected ')' after arguments"),
        v |-> Call(callee, args.v)]

\* the loop of parse_postfix, with the expression built so far
parse_postfix_loop(p, expr) ==
    IF check(p, "LeftParen")
    THEN LET c == finish_call(p, expr) IN Parse("parse_postfix_loop", c.p, c.v, 0)
    ELSE IF is_type_keyword(p)
    THEN Parse("parse_postfix_loop", parse_type(p), Node("Cast", "", 0, 0, <<expr>>), 0)
    ELSE [p |-> p, v |-> expr]

parse_postfix(p) ==
    LET e == parse_primary(p) IN Parse("parse_postfix_loop", e.p, e.v, 0)

parse_unary(p) ==
    LET op == OperatorOf(UnaryOperators, peek_kind(p))
        e == Parse("parse_unary", Parser_advance(p), 0, 0)
    IN IF op # "" THEN [p |-> e.p, v |-> UnaryOp(op, e.v)] ELSE parse_postfix(p)

\* the loop of parse_power, with the expression built so far
parse_power_loop(p, expr) ==
    LET right == Parse("parse_power", Parser_advance(p), 0, 0)
    IN IF check(p, "Pow")
       THEN Parse("parse_power_loop", right.p, BinaryOp(expr, "Pow", right.v), 0)
       ELSE [p |-> p, v |-> expr]

parse_power(p) ==
    LET e == parse_unary(p) IN Parse("parse_power_loop", e.p, e.v, 0)

\* the operand of a binary level
parse_operand(p, level) ==
    IF level = Len(BinaryLevels) THEN parse_power(p) ELSE Parse("parse_binary", p, level + 1, 0)

\* the loop of a binary level, with the expression built so far
parse_binary_loop(p, level, expr) ==
    LET op == OperatorOf(BinaryLevels[level], peek_kind(p))
        right == Parse("parse_operand", Parser_advance(p), level, 0)
    IN IF op # ""
       THEN Parse("parse_binary_loop", right.p, level, BinaryOp(expr, op, right.v))
       ELSE [p |-> p, v |-> expr]

parse_binary(p, level) ==
    LET e == Parse("parse_operand", p, level, 0)
    IN Parse("parse_binary_loop", e.p, level, e.v)

parse_ternary(p) ==
    LET expr == Parse("parse_binary", p, 1, 0)
        then_expr == Parse("parse_expression", Parser_advance(expr.p), 0, 0)
        else_expr == Parse("parse_ternary",
                           expect(then_expr.p, "Colon", "Expected ':' after ternary condition"),
                           0, 0)
    IN IF check(expr.p, "Question")
       THEN [p |-> else_expr.p, v |-> Ternary(expr.v, then_expr.v, else_expr.v)]
       ELSE expr

parse_assignment(p) ==
    LET expr == parse_ternary(p)
        op == OperatorOf(AssignmentOperators, peek_kind(expr.p))
        value == Parse("parse_expression", Parser_advance(expr.p), 0, 0)
    IN IF op # "" THEN [p |-> value.p, v |-> BinaryOp(expr.v, op, value.v)] ELSE expr

parse_var_declaration(p) ==
    LET typed == IF is_type_keyword(p) THEN parse_type(p) ELSE p
        name == expect_identifier(typed, "Expected variable name")
        initializer == Parse("parse_expression", Parser_advance(name.p), 0, 0)
    IN IF check(name.p, "InitAssign")
       THEN [p |-> initializer.p, v |-> VarDecl(name.v, <<initializer.v>>)]
       ELSE [p |-> name.p, v |-> VarDecl(name.v, <<>>)]

\* the loop of the indented branch of parse_block, with the statements parsed so far
parse_block_loop(p, statements) ==
    LET s == Parse("parse_statement", p, 0, 0)
    IN IF check(p, "Dedent") \/ Parser_is_at_end(p)
       THEN [p |-> IF check(p, "Dedent") THEN Parser_advance(p) ELSE p, v |-> Block(statements)]
       ELSE Parse("parse_block_loop",
                  IF check(s.p, "Newline") THEN Parser_advance(s.p) ELSE s.p,
                  Append(statements, s.v), 0)

parse_block(p) ==
    LET s == Parse("parse_statement", p, 0, 0)
    IN IF check(p, "Indent")
       THEN Parse("parse_block_loop", Parser_advance(p), <<>>, 0)
       ELSE [p |-> s.p, v |-> Block(<<s.v>>)]

\* p is at the 'if'
parse_if_statement(p) ==
    LET condition == Parse("parse_expression",
                           expect(Parser_advance(p), "LeftParen", "Expected '(' after 'if'"),
                           0, 0)
        then_branch == Parse("parse_block",
                             expect(condition.p, "RightParen", "Expected ')' after if condition"),
                             0, 0)
        else_branch == Parse("parse_block", Parser_advance(then_branch.p), 0, 0)
    IN IF check(then_branch.p, "Else")
       THEN [p |-> else_branch.p, v |-> If(condition.v, then_branch.v, <<else_branch.v>>)]
       ELSE [p |-> then_branch.p, v |-> If(condition.v, then_branch.v, <<>>)]

\* p is at the 'while'
parse_while_statement(p) ==
    LET condition == Parse("parse_expression",
                           expect(Parser_advance(p), "LeftParen", "Expected '(' after 'while'"),
                           0, 0)
        body == Parse("parse_block",
                      expect(condition.p, "RightParen", "Expected ')' after while condition"),
                      0, 0)
    IN [p |-> body.p, v |-> While(condition.v, body.v)]

\* p is at the 'ret'
parse_return_statement(p) ==
    LET value == Parse("parse_expression", Parser_advance(p), 0, 0)
    IN IF peek_kind(Parser_advance(p)) \in {"Newline", "Dedent", "Indent", "Eof", ""}
       THEN [p |-> Parser_advance(p), v |-> Return(<<>>)]
       ELSE [p |-> value.p, v |-> Return(<<value.v>>)]

\* is_declaration_start is is_type_keyword or is_identifier here
parse_statement(p) ==
    LET kind == peek_kind(p)
        expr == Parse("parse_expression", p, 0, 0)
    IN CASE kind = "If" -> parse_if_statement(p)
         [] kind = "While" -> parse_while_statement(p)
         [] kind = "Ret" -> parse_return_statement(p)
         [] kind = "Break" -> [p |-> Parser_advance(p), v |-> Break]
         [] kind = "Continue" -> [p |-> Parser_advance(p), v |-> Continue]
         [] is_type_keyword(p) \/ kind = "Identifier" -> parse_var_declaration(p)
         [] OTHER -> [p |-> expr.p, v |-> ExprStmt(expr.v)]

\* the loop of parse_parameter_list, with the parameters parsed so far
RECURSIVE parse_parameter_loop(_, _)
parse_parameter_loop(p, params) ==
    LET name == expect_identifier(IF is_type_keyword(p) THEN parse_type(p) ELSE p,
                                  "Expected parameter name")
    IN IF check(name.p, "Comma")
       THEN parse_parameter_loop(Parser_advance(name.p), Append(params, Param(name.v)))
       ELSE [p |-> name.p, v |-> Append(params, Param(name.v))]

parse_parameter_list(p) ==
    IF check(p, "RightParen") THEN [p |-> p, v |-> <<>>] ELSE parse_parameter_loop(p, <<>>)

\* p is at the 'def'
parse_function_declaration(p) ==
    LET name == expect_identifier(Parser_advance(p), "Expected function name")
        params == parse_parameter_list(expect(name.p, "LeftParen",
                                              "Expected '(' after function name"))
        closed == expect(params.p, "RightParen", "Expected ')' after parameters")
        body == Parse("parse_block",
                      IF check(closed, "Arrow") THEN parse_type(Parser_advance(closed))
                      ELSE closed,
                      0, 0)
    IN [p |-> body.p, v |-> FuncDecl(name.v, params.v, body.v)]

parse_declaration(p) ==
    IF check(p, "Def") THEN parse_function_declaration(p)
    ELSE IF is_type_keyword(p) \/ check(p, "Identifier") THEN parse_var_declaration(p)
    ELSE [p |-> synchronize(error_at_current(p, "Expected declaration")), v |-> Error]

\* the loop of parse, with the declarations parsed so far
parse(p, declarations) ==
    LET d == parse_declaration(p)
    IN IF Parser_is_at_end(p) THEN [p |-> p, v |-> declarations]
       ELSE Parse("parse", SkipNewlines(d.p), Append(declarations, d.v), 0)

\* the parser a function is called on is complete before the function begins
Parse(fn, p, x, y) ==
    IF DOMAIN p = {} THEN [p |-> p, v |-> Error]
    ELSE CASE fn = "parse_expression" -> parse_assignment(p)
           [] fn = "parse_ternary" -> parse_ternary(p)
           [] fn = "parse_binary" -> parse_binary(p, x)
           [] fn = "parse_binary_loop" -> parse_binary_loop(p, x, y)
           [] fn = "parse_operand" -> parse_operand(p, x)
           [] fn = "parse_power" -> parse_power(p)
           [] fn = "parse_power_loop" -> parse_power_loop(p, x)
           [] fn = "parse_unary" -> parse_unary(p)
           [] fn = "parse_postfix_loop" -> parse_postfix_loop(p, x)
           [] fn = "finish_call_args" -> finish_call_args(p, x)
           [] fn = "parse_statement" -> parse_statement(p)
           [] fn = "parse_block" -> parse_block(p)
           [] fn = "parse_block_loop" -> parse_block_loop(p, x)
           [] fn = "parse" -> parse(p, x)

\* ------------------------------------------------------------------------
\* Desugaring (brief-hir/src/desugar.rs). The desugarer's state is its
\* temp_counter d; a function that may take a temporary returns the counter
\* with its result
\* ------------------------------------------------------------------------
temp_name(d) == "__temp_" \o NatToStr(d)

RECURSIVE desugar_expr(_)
\* x++ is x = x + 1 and x-- is x = x - 1; an interpolation keeps its parts;
\* every other expression is itself, with its operands desugared
desugar_expr(expr) ==
    CASE expr.k = "PostfixOp" ->
           LET expr_hir == desugar_expr(expr.kids[1])
               one == At(Integer(1), expr.span)
               op == IF expr.name = "Inc" THEN "Add" ELSE "Sub"
           IN At(Assign(expr_hir, At(BinaryOp(expr_hir, op, one), expr.span)), expr.span)
      [] expr.k = "Interpolation" -> expr
      [] OTHER -> [expr EXCEPT !.kids = [i \in 1..Len(expr.kids) |-> desugar_expr(expr.kids[i])]]

desugar_exprs(es) == [i \in 1..Len(es) |-> desugar_expr(es[i])]

\* (mutant) the reversed cases are consumed from the front: the last case of
\* the source first
cases_pop_First(cases) == [case |-> cases[1], rest |-> SubSeq(cases, 2, Len(cases))]

\* cases.pop(): the last element, and what is left
cases_pop(cases) == [case |-> cases[Len(cases)], rest |-> SubSeq(cases, 1, Len(cases) - 1)]

Reverse(seq) == [i \in 1..Len(seq) |-> seq[Len(seq) + 1 - i]]

RECURSIVE match_condition(_, _, _, _)
\* condition = Some(condition || eq), or Some(eq) for the first pattern
or_pattern(condition, eq, span) ==
    IF condition = <<>> THEN <<eq>> ELSE <<At(BinaryOp(condition[1], "Or", eq), span)>>

\* the loop over a case's patterns: temp == p1 || temp == p2 || ..
match_condition(patterns, i, temp_expr, condition) ==
    IF i > Len(patterns) THEN condition
    ELSE match_condition(patterns, i + 1, temp_expr,
                         or_pattern(condition,
                                    At(BinaryOp(temp_expr, "Eq", desugar_expr(patterns[i])),
                                       temp_expr.span),
                                    temp_expr.span))

RECURSIVE desugar_stmts(_, _, _, _)
RECURSIVE desugar_stmt(_, _)
RECURSIVE build_match_if_chain(_, _, _, _, _)

\* the block with its statements replaced by their desugarings
block_of(block, ss) == [d |-> ss.d, out |-> [block EXCEPT !.kids = ss.out]]

\* desugar_block: the statements' desugarings, concatenated
desugar_block(d, block) == block_of(block, desugar_stmts(d, block.kids, 1, Len(block.kids)))

\* flat_map of desugar_stmt over ss[lo], .., ss[hi] in this order (the first
\* half is computed before the second half is begun)
desugar_stmts(d, ss, lo, hi) ==
    IF lo > hi THEN [d |-> d, out |-> <<>>]
    ELSE IF lo = hi THEN desugar_stmt(d, ss[lo])
    ELSE LET mid == (lo + hi) \div 2
         IN CHOOSE v \in {LET t == desugar_stmts(h.d, ss, mid + 1, hi)
                          IN [d |-> t.d, out |-> h.out \o t.out] :
                          h \in {desugar_stmts(d, ss, lo, mid)}} : TRUE

\* Some(Box::new(block)) of a desugared block
some_block(b) == [d |-> b.d, out |-> <<b.out>>]

\* the If statement of one case: its condition, its body, and as else branch
\* what the remaining cases gave
case_if(popped, temp_expr, span, case_body, rest) ==
    LET found == match_condition(FuncParams(popped.case), 1, temp_expr, <<>>)
        condition == IF found = <<>> THEN At(Boolean(TRUE), span) ELSE found[1]
    IN [d |-> rest.d, out |-> <<At(If(condition, case_body.out, rest.out), span)>>]

\* Some(Box::new(HirBlock { statements: else_stmts, span }))
else_of(else_stmts, span) == [d |-> else_stmts.d, out |-> <<At(Block(else_stmts.out), span)>>]

\* the else branch after one case's body: the chain of the remaining cases, or
\* the match's else branch when no case remains
case_rest(temp_var, popped, else_branch, span, case_body) ==
    case_if(popped, At(Variable(temp_var), span), span, case_body,
            IF popped.rest = <<>> THEN [d |-> case_body.d, out |-> else_branch]
            ELSE else_of(build_match_if_chain(case_body.d, temp_var, popped.rest,
                                              else_branch, span), span))

\* the case taken off the list: its body is desugared first
case_popped(d, temp_var, popped, else_branch, span) ==
    case_rest(temp_var, popped, else_branch, span, desugar_block(d, FuncBody(popped.case)))

build_match_if_chain(d, temp_var, cases, else_branch, span) ==
    IF cases = <<>>
    THEN [d |-> d, out |-> IF else_branch # <<>> THEN else_branch[1].kids ELSE <<>>]
    ELSE case_popped(d, temp_var, cases_pop(cases), else_branch, span)

\* HirStmt::If of the desugared parts
if_stmt(stmt, condition, then_branch, else_branch) ==
    [d |-> else_branch.d,
     out |-> <<[stmt EXCEPT !.kids = <<condition, then_branch.out>> \o else_branch.out]>>]

\* the else branch is desugared after the then branch
if_else(stmt, condition, then_branch) ==
    if_stmt(stmt, condition, then_branch,
            IF Len(stmt.kids) = 3 THEN some_block(desugar_block(then_branch.d, stmt.kids[3]))
            ELSE [d |-> then_branch.d, out |-> <<>>])

\* HirStmt::While of the desugared parts
while_stmt(stmt, condition, body) ==
    [d |-> body.d, out |-> <<[stmt EXCEPT !.kids = <<condition, body.out>>]>>]

\* for (init; cond; incr) body: init, then while (cond) { body; incr }
for_loop(stmt, init, body_block) ==
    LET while_body_stmts ==
            body_block.out.kids
            \o (IF stmt.kids[3] = Absent THEN <<>>
                ELSE <<At(ExprStmt(desugar_expr(stmt.kids[3])), stmt.span)>>)
        while_condition == IF stmt.kids[2] = Absent THEN At(Boolean(TRUE), stmt.span)
                           ELSE desugar_expr(stmt.kids[2])
    IN [d |-> body_block.d,
        out |-> init.out
                \o <<At(While(while_condition,
                              [body_block.out EXCEPT !.kids = while_body_stmts]),
                        stmt.span)>>]

\* the body is desugared after the init statement
for_body(stmt, init) == for_loop(stmt, init, desugar_block(init.d, stmt.kids[4]))

\* for (x in xs) body: the index variable, then the while loop over it
for_in_loop(stmt, index_var, iterable_expr, body_block) ==
    LET span == stmt.span
        index_init == At(VarDecl(index_var, <<At(Integer(0), span)>>), span)
        index_expr == At(Variable(index_var), span)
        array_access == At(Index(iterable_expr, index_expr), span)
        loop_var_init == At(VarDecl(stmt.name, <<array_access>>), span)
        len_call == At(Call(At(Variable("len"), span), <<iterable_expr>>), span)
        condition == At(BinaryOp(index_expr, "Lt", len_call), span)
        increment ==
            At(Assign(index_expr,
                      At(BinaryOp(At(Variable(index_var), span), "Add",
                                  At(Integer(1), span)), span)), span)
        while_body_stmts ==
            <<loop_var_init>> \o body_block.out.kids \o <<At(ExprStmt(increment), span)>>
    IN [d |-> body_block.d,
        out |-> <<index_init,
                  At(While(condition, [body_block.out EXCEPT !.kids = while_body_stmts]),
                     span)>>]

\* the temporary's declaration, then the chain of ifs
match_stmt(stmt, temp_var, if_chain) ==
    [d |-> if_chain.d,
     out |-> <<At(VarDecl(temp_var, <<desugar_expr(stmt.kids[1])>>), stmt.span)>>
             \o if_chain.out]

\* the chain is built after the else branch is desugared
match_cases(stmt, temp_var, else_branch_hir) ==
    match_stmt(stmt, temp_var,
               build_match_if_chain(else_branch_hir.d, temp_var, Reverse(MatchCases(stmt)),
                                    else_branch_hir.out, stmt.span))

desugar_stmt(d, stmt) ==
    CASE stmt.k = "VarDecl" ->
           [d |-> d, out |-> <<[stmt EXCEPT !.kids = desugar_exprs(stmt.kids)]>>]
      [] stmt.k = "If" ->
           if_else(stmt, desugar_expr(stmt.kids[1]), desugar_block(d, stmt.kids[2]))
      [] stmt.k = "While" ->
           while_stmt(stmt, desugar_expr(stmt.kids[1]), desugar_block(d, stmt.kids[2]))
      [] stmt.k = "For" ->
           for_body(stmt, IF stmt.kids[1] = Absent THEN [d |-> d, out |-> <<>>]
                          ELSE desugar_stmt(d, stmt.kids[1]))
      [] stmt.k = "ForIn" ->
           for_in_loop(stmt, temp_name(d), desugar_expr(stmt.kids[1]),
                       desugar_block(d + 1, stmt.kids[2]))
      [] stmt.k = "Match" ->
           match_cases(stmt, temp_name(d),
                       IF MatchElse(stmt) = <<>> THEN [d |-> d + 1, out |-> <<>>]
                       ELSE some_block(desugar_block(d + 1, MatchElse(stmt)[1])))
      [] stmt.k \in {"Return", "Expr"} ->
           [d |-> d, out |-> <<[stmt EXCEPT !.kids = desugar_exprs(stmt.kids)]>>]
      [] stmt.k \in {"Break", "Continue", "Error"} -> [d |-> d, out |-> <<stmt>>]

\* the declaration with its body replaced
func_with_body(f, body) ==
    [d |-> body.d, out |-> [f EXCEPT !.kids = FuncParams(f) \o <<body.out>>]]

\* desugar_func_decl and desugar_method_decl: the body desugared
desugar_func_decl(d, f) == func_with_body(f, desugar_block(d, FuncBody(f)))

\* the test of desugar_ctor_decl: a top-level expression statement of the body
\* that is an Assign to a member named as the parameter
already_assigned(statements, param_name) ==
    \E i \in 1..Len(statements) :
        /\ statements[i].k = "Expr"
        /\ statements[i].kids[1].k = "Assign"
        /\ statements[i].kids[1].kids[1].k = "MemberAccess"
        /\ statements[i].kids[1].kids[1].name = param_name

\* obj.param_name = param_name, all of it with the parameter's span
implicit_assign(param) ==
    LET obj_expr == At(Variable("obj"), param.span)
        member_access == At(MemberAccess(obj_expr, param.name), param.span)
        param_var == At(Variable(param.name), param.span)
    IN At(ExprStmt(At(Assign(member_access, param_var), param.span)), param.span)

\* the implicit assignments of the parameters the body does not assign, put
\* before the body's statements
ctor_with_body(ctor, params, body) ==
    LET missing == SelectSeq(params, LAMBDA p : ~already_assigned(body.out.kids, p.name))
        implicit_assigns == [i \in 1..Len(missing) |-> implicit_assign(missing[i])]
    IN [d |-> body.d,
        out |-> [ctor EXCEPT !.kids =
                    params \o <<[body.out EXCEPT !.kids = implicit_assigns \o @]>>]]

desugar_ctor_decl(d, ctor) ==
    ctor_with_body(ctor, FuncParams(ctor), desugar_block(d, FuncBody(ctor)))

RECURSIVE desugar_members(_, _, _)
member_cons(h, t) == [d |-> t.d, out |-> <<h.out>> \o t.out]

members_after(h, members, i) == member_cons(h, desugar_members(h.d, members, i + 1))

\* the constructor, then the methods in order
desugar_members(d, members, i) ==
    IF i > Len(members) THEN [d |-> d, out |-> <<>>]
    ELSE members_after(IF members[i].k = "CtorDecl" THEN desugar_ctor_decl(d, members[i])
                       ELSE desugar_func_decl(d, members[i]),
                       members, i)

class_with_members(decl, members) ==
    [d |-> members.d, out |-> [decl EXCEPT !.kids = members.out]]

desugar_decl(d, decl) ==
    CASE decl.k = "VarDecl" -> [d |-> d, out |-> [decl EXCEPT !.kids = desugar_exprs(decl.kids)]]
      [] decl.k = "FuncDecl" -> desugar_func_decl(d, decl)
      [] decl.k = "ClassDecl" -> class_with_members(decl, desugar_members(d, decl.kids, 1))
      [] decl.k = "Error" -> [d |-> d, out |-> decl]

RECURSIVE desugar_decls(_, _, _)
decls_after(h, ds, i) == <<h.out>> \o desugar_decls(h.d, ds, i + 1)

desugar_decls(d, ds, i) ==
    IF i > Len(ds) THEN <<>> ELSE decls_after(desugar_decl(d, ds[i]), ds, i)

\* desugar: a new Desugarer (temp_counter 0) on the program's declarations
desugar(program) == desugar_decls(0, program, 1)

\* ------------------------------------------------------------------------
\* Name resolution (brief-hir/src/resolve.rs, symbol.rs)
\* ------------------------------------------------------------------------
BUILTINS == {"print", "len", "int", "dub", "str",
             "rt_concat2", "rt_concat3", "rt_concat4", "rt_concat5"}

Resolver_new == [errors |-> <<>>, scopes |-> <<>>, local_count |-> 0]

\* HirError (error.rs)
UndefinedVariable(name, span) == [kind |-> "UndefinedVariable", name |-> name, span |-> span]
DuplicateSymbol(name, original_span, duplicate_span) ==
    [kind |-> "DuplicateSymbol", name |-> name,
     original_span |-> original_span, duplicate_span |-> duplicate_span]

None == [some |-> FALSE, sym |-> 0]
Some(sym) == [some |-> TRUE, sym |-> sym]

\* Scope::lookup: the most recent binding of the name in this scope
Scope_lookup(scope, name) ==
    LET hits == {i \in 1..Len(scope) : scope[i].name = name}
    IN IF hits = {} THEN None
       ELSE Some(scope[CHOOSE i \in hits : \A j \in hits : j <= i].sym)

Scope_add(scope, name, sym) == Append(scope, [name |-> name, sym |-> sym])

begin_scope(r) == [r EXCEPT !.scopes = Append(@, <<>>)]
end_scope(r) == [r EXCEPT !.scopes = SubSeq(@, 1, Len(@) - 1)]

is_builtin(name) == name \in BUILTINS

\* declare_symbol: rejects a name the current scope already has; a Local gets
\* the next local_count, a Param its index, a Global 0
declare_symbol(r, name, kind, idx, span) ==
    IF r.scopes # <<>> /\ Scope_lookup(r.scopes[Len(r.scopes)], name).some
    THEN [r |-> [r EXCEPT !.errors = Append(@, DuplicateSymbol(name, span, span))],
          res |-> None]
    ELSE IF r.scopes = <<>> THEN [r |-> r, res |-> None]
    ELSE LET symbol_ref == CASE kind = "Local" -> r.local_count
                             [] kind = "Param" -> idx
                             [] kind = "Global" -> 0
             r1 == IF kind = "Local" THEN [r EXCEPT !.local_count = @ + 1] ELSE r
         IN [r |-> [r1 EXCEPT !.scopes[Len(r.scopes)] = Scope_add(@, name, symbol_ref)],
             res |-> Some(symbol_ref)]

\* resolve_variable: innermost scope first, then the built-ins
resolve_variable(r, name, span) ==
    LET hits == {i \in 1..Len(r.scopes) : Scope_lookup(r.scopes[i], name).some}
    IN IF hits # {}
       THEN [r |-> r, res |-> Scope_lookup(r.scopes[CHOOSE i \in hits : \A j \in hits : j <= i], name)]
       ELSE IF is_builtin(name) THEN [r |-> r, res |-> Some(BUILTIN)]
       ELSE [r |-> [r EXCEPT !.errors = Append(@, UndefinedVariable(name, span))],
             res |-> None]

SetSym(node, res) == IF res.some THEN [node EXCEPT !.sym = res.sym] ELSE node

\* The mutually recursive functions of the resolver call each other through
\* one recursive operator, Resolve, which selects the function's body
RECURSIVE Resolve(_, _, _, _, _)

\* resolve_expr on es[i], es[i+1], .. in this order
resolve_exprs(r, es, i) ==
    IF i > Len(es) THEN [r |-> r, nodes |-> <<>>]
    ELSE LET h == Resolve("resolve_expr", r, es[i], 0, 0)
             t == Resolve("resolve_exprs", h.r, es, i + 1, 0)
         IN [r |-> t.r, nodes |-> <<h.node>> \o t.nodes]

resolve_expr(r, expr) ==
    IF expr.k = "Variable"
    THEN LET v == resolve_variable(r, expr.name, expr.span)
         IN [r |-> v.r, node |-> SetSym(expr, v.res)]
    ELSE IF expr.k \in {"BinaryOp", "UnaryOp", "Assign", "Call", "Ternary",
                        "MemberAccess", "Index"}
    THEN LET ks == Resolve("resolve_exprs", r, expr.kids, 1, 0)
         IN [r |-> ks.r, node |-> [expr EXCEPT !.kids = ks.nodes]]
    ELSE [r |-> r, node |-> expr]

\* resolve_stmt on ss[lo], .., ss[hi] in this order (the first half is computed
\* before the second half is begun)
resolve_stmts(r, ss, lo, hi) ==
    IF lo > hi THEN [r |-> r, nodes |-> <<>>]
    ELSE IF lo = hi
    THEN LET h == Resolve("resolve_stmt", r, ss[lo], 0, 0) IN [r |-> h.r, nodes |-> <<h.node>>]
    ELSE LET mid == (lo + hi) \div 2
         IN CHOOSE v \in {LET t == Resolve("resolve_stmts", h.r, ss, mid + 1, hi)
                          IN [r |-> t.r, nodes |-> h.nodes \o t.nodes] :
                          h \in {Resolve("resolve_stmts", r, ss, lo, mid)}} : TRUE

resolve_block(r, block) ==
    LET ss == Resolve("resolve_stmts", begin_scope(r), block.kids, 1, Len(block.kids))
    IN [r |-> end_scope(ss.r), node |-> [block EXCEPT !.kids = ss.nodes]]

resolve_stmt(r, stmt) ==
    CASE stmt.k = "VarDecl" ->
           LET d == declare_symbol(r, stmt.name, "Local", 0, stmt.span)
               init == Resolve("resolve_exprs", d.r, stmt.kids, 1, 0)
           IN [r |-> init.r, node |-> [SetSym(stmt, d.res) EXCEPT !.kids = init.nodes]]
      [] stmt.k \in {"If", "While"} ->
           LET c == Resolve("resolve_expr", r, stmt.kids[1], 0, 0)
               bs == Resolve("resolve_stmts", c.r, stmt.kids, 2, Len(stmt.kids))
           IN [r |-> bs.r, node |-> [stmt EXCEPT !.kids = <<c.node>> \o bs.nodes]]
      [] stmt.k \in {"Return", "Expr"} ->
           LET v == Resolve("resolve_exprs", r, stmt.kids, 1, 0)
           IN [r |-> v.r, node |-> [stmt EXCEPT !.kids = v.nodes]]
      [] stmt.k = "Block" -> resolve_block(r, stmt)
      [] stmt.k \in {"Break", "Continue", "Error"} -> [r |-> r, node |-> stmt]

\* (the resolver state a function is called on is complete before the function
\* begins: DOMAIN r makes r's value be computed here)
Resolve(fn, r, x, lo, hi) ==
    IF DOMAIN r = {} THEN r
    ELSE CASE fn = "resolve_expr" -> resolve_expr(r, x)
           [] fn = "resolve_exprs" -> resolve_exprs(r, x, lo)
           [] fn = "resolve_stmt" -> resolve_stmt(r, x)
           [] fn = "resolve_stmts" -> resolve_stmts(r, x, lo, hi)

RECURSIVE declare_params(_, _, _)
\* the parameter loop of resolve_func_decl: parameter idx is Param(idx)
declare_params(r, params, i) ==
    IF i > Len(params) THEN [r |-> r, nodes |-> <<>>]
    ELSE LET d == declare_symbol(r, params[i].name, "Param", i - 1, params[i].span)
             t == declare_params(d.r, params, i + 1)
         IN [r |-> t.r, nodes |-> <<SetSym(params[i], d.res)>> \o t.nodes]

resolve_func_decl(r, func) ==
    LET ps == declare_params(begin_scope(r), FuncParams(func), 1)
        b == resolve_block(ps.r, FuncBody(func))
    IN [r |-> end_scope(b.r), node |-> [func EXCEPT !.kids = ps.nodes \o <<b.node>>]]

RECURSIVE resolve_members(_, _, _)
with_node(node, t) == [r |-> t.r, nodes |-> <<node>> \o t.nodes]

resolve_members_after(h, members, i) == with_node(h.node, resolve_members(h.r, members, i + 1))

\* resolve_ctor_decl on the constructor, then resolve_method_decl on the
\* methods in order: each as resolve_func_decl, a scope with the parameters
\* around the body
resolve_members(r, members, i) ==
    IF i > Len(members) THEN [r |-> r, nodes |-> <<>>]
    ELSE resolve_members_after(resolve_func_decl(r, members[i]), members, i)

\* the class with its symbol and its resolved members
class_resolved(decl, symbol, ms) ==
    [r |-> ms.r, node |-> [SetSym(decl, symbol) EXCEPT !.kids = ms.nodes]]

resolve_decl(r, decl) ==
    CASE decl.k = "VarDecl" -> Resolve("resolve_stmt", r, decl, 0, 0)
      [] decl.k = "FuncDecl" ->
           LET d == declare_symbol(r, decl.name, "Global", 0, decl.span)
           IN resolve_func_decl(d.r, SetSym(decl, d.res))
      [] decl.k = "ClassDecl" ->
           LET d == declare_symbol(r, decl.name, "Global", 0, decl.span)
           IN class_resolved(decl, d.res, resolve_members(d.r, decl.kids, 1))
      [] decl.k = "Error" -> [r |-> r, node |-> decl]

RECURSIVE resolve_decls(_, _, _)
resolve_decls(r, ds, i) ==
    IF i > Len(ds) THEN [r |-> r, nodes |-> <<>>]
    ELSE LET h == resolve_decl(r, ds[i])
             t == resolve_decls(h.r, ds, i + 1)
         IN [r |-> t.r, nodes |-> <<h.node>> \o t.nodes]

\* resolve_program: Ok (the resolved declarations) or Err (the errors)
resolve_program(program) ==
    LET ds == resolve_decls(begin_scope(Resolver_new), program, 1)
    IN [ok |-> end_scope(ds.r).errors = <<>>, declarations |-> ds.nodes, errors |-> ds.r.errors]

\* lower: desugar, then resolve
lower(program) == resolve_program(desugar(program))

\* ------------------------------------------------------------------------
\* Bytecode emitter (brief-hir/src/emit.rs). The emitter state e holds the
\* current chunk's code and constants, the two u8 counters, the panic message
\* ("" while none) and whether the build checks arithmetic overflow (a debug
\* build panics where a release build wraps)
\* ------------------------------------------------------------------------
U8_MAX == 255

Emitter_new(overflow_checks) ==
    [code |-> <<>>, constants |-> <<>>, register_counter |-> 0, max_registers |-> 0,
     panic |-> "", overflow_checks |-> overflow_checks]

Panic(e, msg) == IF e.panic = "" THEN [e EXCEPT !.panic = msg] ELSE e

\* u8 addition: panics or wraps on overflow, as the build decides
AddU8(e, x, y) ==
    IF x + y <= U8_MAX THEN [e |-> e, v |-> x + y]
    ELSE IF e.overflow_checks THEN [e |-> Panic(e, "attempt to add with overflow"), v |-> 0]
    ELSE [e |-> e, v |-> (x + y) % (U8_MAX + 1)]

allocate_register(e) ==
    LET sum == AddU8(e, e.register_counter, 1)
    IN [e |-> [sum.e EXCEPT !.register_counter = sum.v,
                            !.max_registers = IF sum.v > @ THEN sum.v ELSE @],
        reg |-> e.register_counter]

reserve_register(e, reg) ==
    LET needed == IF reg + 1 > U8_MAX THEN U8_MAX ELSE reg + 1
        e1 == IF needed > e.register_counter THEN [e EXCEPT !.register_counter = needed] ELSE e
    IN IF needed > e1.max_registers THEN [e1 EXCEPT !.max_registers = needed] ELSE e1

\* symbol.0 as u8
register_for_symbol(e, symbol) ==
    LET reg == symbol % (U8_MAX + 1)
    IN [e |-> reserve_register(e, reg), reg |-> reg]

emit_instruction(e, instruction) == [e EXCEPT !.code = Append(@, instruction)]
get_ip(e) == Len(e.code)

\* Constant::Double(f64::NAN)
NaN == [t |-> "Double", n |-> 0, s |-> "NaN"]
\* the derived PartialEq of Constant: an f64 NaN is equal to nothing
Constant_eq(a, b) == a = b /\ a # NaN

\* Chunk::add_constant: the index of an equal constant, or of a new one
add_constant(e, constant) ==
    LET hits == {i \in 1..Len(e.constants) : Constant_eq(e.constants[i], constant)}
    IN IF hits # {} THEN [e |-> e, idx |-> (CHOOSE i \in hits : \A j \in hits : i <= j) - 1]
       ELSE IF Len(e.constants) > U8_MAX
       THEN [e |-> Panic(e, "Too many constants in chunk (max 256)"), idx |-> 0]
       ELSE [e |-> [e EXCEPT !.constants = Append(@, constant)], idx |-> Len(e.constants)]

\* LOADK reg, <constant>
EmitLoadK(e, reg, constant) ==
    LET k == add_constant(e, constant)
    IN emit_instruction(k.e, new2("LOADK", reg, k.idx))

patch_offset(e, ip, off) == [e EXCEPT !.code[ip + 1] = set_offset(@, off)]
patch_jump_target(e, ip, target_ip) == patch_offset(e, ip, AsI16(target_ip - (ip + 1)))

emit_null_return(e) ==
    LET k == add_constant(e, NullV)
        a == allocate_register(k.e)
    IN emit_instruction(emit_instruction(a.e, new2("LOADK", a.reg, k.idx)), new1("RET", a.reg))

CompoundOpcode(op) ==
    CASE op = "PlusAssign" -> "ADD"
      [] op = "MinusAssign" -> "SUB"
      [] op = "StarAssign" -> "MUL"
      [] op = "SlashAssign" -> "DIVF"
      [] op = "PercentAssign" -> "MOD"
      [] op = "PowAssign" -> "POW"

BinaryOpcode(op) ==
    CASE op = "Add" -> "ADD"
      [] op = "Sub" -> "SUB"
      [] op = "Mul" -> "MUL"
      [] op = "Div" -> "DIVF"
      [] op = "Mod" -> "MOD"
      [] op = "Pow" -> "POW"
      [] op = "Eq" -> "CMP_EQ"
      [] op = "Ne" -> "CMP_NE"
      [] op = "Lt" -> "CMP_LT"
      [] op = "Le" -> "CMP_LE"
      [] op = "Gt" -> "CMP_GT"
      [] op = "Ge" -> "CMP_GE"
      [] OTHER -> ""

\* The mutually recursive functions of the emitter call each other through
\* one recursive operator, Emit, which selects the function's body
RECURSIVE Emit(_, _, _, _, _, _)

emit_block(e, block, tail_return) == Emit("emit_stmts", e, block.kids, 1, Len(block.kids), tail_return)

RECURSIVE emit_args(_, _, _)

\* emit_assign_expr (Assign / InitAssign written as a binary operator)
emit_assign_expr(e, target, value, result_reg) ==
    IF target.k # "Variable" THEN Panic(e, "Complex assignment target not yet supported")
    ELSE IF target.sym = BUILTIN THEN Panic(e, "Cannot assign to builtin")
    ELSE LET d == register_for_symbol(e, target.sym)
             e1 == Emit("emit_expr", d.e, value, d.reg, 0, FALSE)
         IN IF d.reg # result_reg THEN emit_instruction(e1, new2("MOVE", result_reg, d.reg))
            ELSE e1

emit_compound_assignment(e, left, right, result_reg, op) ==
    IF left.k # "Variable" THEN Panic(e, "Compound assignment target must be a variable")
    ELSE IF left.sym = BUILTIN THEN Panic(e, "Cannot assign to builtin")
    ELSE LET d == register_for_symbol(e, left.sym)
             a == allocate_register(d.e)
             e1 == Emit("emit_expr", a.e, right, a.reg, 0, FALSE)
             e2 == emit_instruction(e1, Instr(CompoundOpcode(op), d.reg, d.reg, a.reg))
         IN IF d.reg # result_reg THEN emit_instruction(e2, new2("MOVE", result_reg, d.reg))
            ELSE e2

\* the closure of the Call arm: a fresh register per argument, args[i..]
emit_args(e, args, i) ==
    IF i > Len(args) THEN [e |-> e, regs |-> <<>>]
    ELSE LET a == allocate_register(e)
             e1 == Emit("emit_expr", a.e, args[i], a.reg, 0, FALSE)
             t == emit_args(e1, args, i + 1)
         IN [e |-> t.e, regs |-> <<a.reg>> \o t.regs]

RECURSIVE MoveArgs(_, _, _, _)
\* the loop moving the arguments to callee_reg + 1 + i
MoveArgs(e, callee_reg, arg_regs, i) ==
    IF i > Len(arg_regs) THEN e
    ELSE LET s1 == AddU8(e, callee_reg, 1)
             s2 == AddU8(s1.e, s1.v, (i - 1) % (U8_MAX + 1))
             e1 == IF arg_regs[i] # s2.v
                   THEN emit_instruction(s2.e, new2("MOVE", s2.v, arg_regs[i])) ELSE s2.e
         IN MoveArgs(e1, callee_reg, arg_regs, i + 1)

EmitBinaryOp(e, expr, target_reg) ==
    LET left == expr.kids[1]
        right == expr.kids[2]
        op == expr.name
    IN CASE op \in {"Assign", "InitAssign"} -> emit_assign_expr(e, left, right, target_reg)
         [] op = "And" ->
              LET e1 == Emit("emit_expr", e, left, target_reg, 0, FALSE)
                  jif_ip == get_ip(e1)
                  e2 == emit_instruction(e1, new2("JIF", target_reg, 0))
                  e3 == Emit("emit_expr", e2, right, target_reg, 0, FALSE)
              IN patch_jump_target(e3, jif_ip, get_ip(e3))
         [] op = "Or" ->
              LET e1 == Emit("emit_expr", e, left, target_reg, 0, FALSE)
                  jif_ip == get_ip(e1)
                  e2 == emit_instruction(e1, new2("JIF", target_reg, 0))
                  skip_ip == get_ip(e2)
                  e3 == emit_instruction(e2, new1("JMP", 0))
                  e4 == patch_jump_target(e3, jif_ip, get_ip(e3))
                  e5 == Emit("emit_expr", e4, right, target_reg, 0, FALSE)
              IN patch_jump_target(e5, skip_ip, get_ip(e5))
         [] op \in {"PlusAssign", "MinusAssign", "StarAssign", "SlashAssign",
                    "PercentAssign", "PowAssign"} ->
              emit_compound_assignment(e, left, right, target_reg, op)
         [] OTHER ->
              LET l == allocate_register(e)
                  r == allocate_register(l.e)
                  e1 == Emit("emit_expr", r.e, left, l.reg, 0, FALSE)
                  e2 == Emit("emit_expr", e1, right, r.reg, 0, FALSE)
              IN IF BinaryOpcode(op) = "" THEN Panic(e2, "Unexpected binary operator in HIR")
                 ELSE emit_instruction(e2, Instr(BinaryOpcode(op), target_reg, l.reg, r.reg))

EmitTernary(e, expr, target_reg) ==
    LET c == allocate_register(e)
        e1 == Emit("emit_expr", c.e, expr.kids[1], c.reg, 0, FALSE)
        jmp_if_false_ip == get_ip(e1)
        e2 == emit_instruction(e1, new2("JIF", c.reg, 0))
        e3 == Emit("emit_expr", e2, expr.kids[2], target_reg, 0, FALSE)
        then_end_ip == get_ip(e3)
        jmp_over_else_ip == get_ip(e3)
        e4 == emit_instruction(e3, new1("JMP", 0))
        e5 == patch_offset(e4, jmp_if_false_ip, AsI16(then_end_ip - jmp_if_false_ip))
        e6 == Emit("emit_expr", e5, expr.kids[3], target_reg, 0, FALSE)
        else_end_ip == get_ip(e6)
    IN patch_offset(e6, jmp_over_else_ip, AsI16(else_end_ip - jmp_over_else_ip))

emit_expr(e, expr, target_reg) ==
         CASE expr.k = "Integer" -> EmitLoadK(e, target_reg, IntV(expr.n))
           [] expr.k = "Double" -> EmitLoadK(e, target_reg, DoubleV(expr.n))
           [] expr.k = "Boolean" -> EmitLoadK(e, target_reg, BoolV(expr.n = 1))
           [] expr.k = "String" -> EmitLoadK(e, target_reg, StrV(expr.name))
           [] expr.k \in {"Null", "Error"} -> EmitLoadK(e, target_reg, NullV)
           [] expr.k = "Variable" ->
                IF expr.sym = BUILTIN THEN EmitLoadK(e, target_reg, StrV(expr.name))
                ELSE LET src == register_for_symbol(e, expr.sym)
                     IN IF src.reg # target_reg
                        THEN emit_instruction(src.e, new2("MOVE", target_reg, src.reg))
                        ELSE src.e
           [] expr.k = "BinaryOp" -> EmitBinaryOp(e, expr, target_reg)
           [] expr.k = "UnaryOp" ->
                LET a == allocate_register(e)
                    e1 == Emit("emit_expr", a.e, expr.kids[1], a.reg, 0, FALSE)
                IN IF expr.name = "Neg" THEN emit_instruction(e1, new2("NEG", target_reg, a.reg))
                   ELSE IF expr.name = "Not"
                   THEN emit_instruction(e1, new2("NOT", target_reg, a.reg))
                   ELSE Panic(e1, "Unsupported unary operator")
           [] expr.k = "Assign" ->
                LET a == allocate_register(e)
                    e1 == Emit("emit_expr", a.e, expr.kids[2], a.reg, 0, FALSE)
                    target == expr.kids[1]
                IN IF target.k # "Variable"
                   THEN Panic(e1, "Complex assignment target not yet supported")
                   ELSE IF target.sym = BUILTIN THEN Panic(e1, "Cannot assign to builtin")
                   ELSE LET d == register_for_symbol(e1, target.sym)
                        IN emit_instruction(d.e, new2("MOVE", d.reg, a.reg))
           [] expr.k = "Call" ->
                LET a == allocate_register(e)
                    e1 == Emit("emit_expr", a.e, expr.kids[1], a.reg, 0, FALSE)
                    args == SubSeq(expr.kids, 2, Len(expr.kids))
                    as == emit_args(e1, args, 1)
                    e2 == MoveArgs(as.e, a.reg, as.regs, 1)
                IN emit_instruction(e2, Instr("CALL", target_reg, a.reg, Len(args) % (U8_MAX + 1)))
           [] expr.k = "Ternary" -> EmitTernary(e, expr, target_reg)
           [] expr.k \in {"MethodCall", "MemberAccess", "Index", "Cast", "Lambda"} ->
                Panic(e, "not yet implemented")

\* the optional else branch of an If node
ElseBranch(stmt) == SubSeq(stmt.kids, 3, Len(stmt.kids))

emit_if(e, stmt) ==
    LET c == allocate_register(e)
        e1 == Emit("emit_expr", c.e, stmt.kids[1], c.reg, 0, FALSE)
        jmp_if_false_ip == get_ip(e1)
        e2 == emit_instruction(e1, new2("JIF", c.reg, 0))
        e3 == emit_block(e2, stmt.kids[2], FALSE)
        then_end_ip == get_ip(e3)
        has_else == ElseBranch(stmt) # <<>>
        e4 == IF has_else THEN emit_instruction(e3, new1("JMP", 0)) ELSE e3
        \* with an else branch this is the index of the JMP itself
        else_start_ip == then_end_ip
        e5 == patch_jump_target(e4, jmp_if_false_ip, else_start_ip)
    IN IF has_else
       THEN LET e6 == emit_block(e5, ElseBranch(stmt)[1], FALSE)
            IN patch_jump_target(e6, else_start_ip, get_ip(e6))
       ELSE e5

\* (loop_start_ip as i16) - (loop_end_ip as i16) - 1 in i16 arithmetic
BackJmpOffset(e, loop_start_ip, loop_end_ip) ==
    LET d == AsI16(loop_start_ip) - AsI16(loop_end_ip) - 1
    IN IF d >= 0 - 32768 /\ d <= 32767 THEN [e |-> e, v |-> d]
       ELSE IF e.overflow_checks
       THEN [e |-> Panic(e, "attempt to subtract with overflow"), v |-> 0]
       ELSE [e |-> e, v |-> AsI16(d)]

emit_while(e, stmt) ==
    LET loop_start_ip == get_ip(e)
        c == allocate_register(e)
        e1 == Emit("emit_expr", c.e, stmt.kids[1], c.reg, 0, FALSE)
        jmp_if_false_ip == get_ip(e1)
        e2 == emit_instruction(e1, new2("JIF", c.reg, 0))
        e3 == emit_block(e2, stmt.kids[2], FALSE)
        loop_end_ip == get_ip(e3)
        back == BackJmpOffset(e3, loop_start_ip, loop_end_ip)
        e4 == emit_instruction(back.e, new1("JMP", 0))
        e5 == patch_offset(e4, loop_end_ip, back.v)
    IN patch_jump_target(e5, jmp_if_false_ip, loop_end_ip + 1)

emit_stmt(e, stmt) ==
         CASE stmt.k = "VarDecl" ->
                LET t == register_for_symbol(e, stmt.sym)
                IN IF stmt.kids # <<>> THEN Emit("emit_expr", t.e, stmt.kids[1], t.reg, 0, FALSE)
                   ELSE EmitLoadK(t.e, t.reg, NullV)
           [] stmt.k = "If" -> emit_if(e, stmt)
           [] stmt.k = "While" -> emit_while(e, stmt)
           [] stmt.k = "Return" ->
                IF stmt.kids # <<>>
                THEN LET a == allocate_register(e)
                         e1 == Emit("emit_expr", a.e, stmt.kids[1], a.reg, 0, FALSE)
                     IN emit_instruction(e1, new1("RET", a.reg))
                ELSE LET k == add_constant(e, NullV)
                         a == allocate_register(k.e)
                     IN emit_instruction(emit_instruction(a.e, new2("LOADK", a.reg, k.idx)),
                                         new1("RET", a.reg))
           [] stmt.k \in {"Break", "Continue", "Error"} -> e
           [] stmt.k = "Expr" ->
                LET a == allocate_register(e)
                IN Emit("emit_expr", a.e, stmt.kids[1], a.reg, 0, FALSE)

\* the loop of emit_block over statements[lo..hi] (the first half is computed
\* before the second half is begun)
emit_stmts(e, ss, lo, hi, tail_return) ==
    IF lo > hi THEN e
    ELSE IF lo = hi
    THEN LET stmt == ss[lo]
             is_tail == tail_return /\ lo = Len(ss)
         IN IF is_tail /\ stmt.k = "Expr"
            THEN LET a == allocate_register(e)
                     e2 == Emit("emit_expr", a.e, stmt.kids[1], a.reg, 0, FALSE)
                 IN emit_instruction(e2, new1("RET", a.reg))
            ELSE IF is_tail /\ stmt.k = "If"
            THEN LET a == allocate_register(e)
                     e2 == Emit("emit_if_with_result", a.e, stmt, a.reg, 0, FALSE)
                 IN emit_instruction(e2, new1("RET", a.reg))
            ELSE Emit("emit_stmt", e, stmt, 0, 0, FALSE)
    ELSE LET mid == (lo + hi) \div 2
         IN CHOOSE v \in {Emit("emit_stmts", e1, ss, mid + 1, hi, tail_return) :
                          e1 \in {Emit("emit_stmts", e, ss, lo, mid, tail_return)}} : TRUE

RECURSIVE EmitBlockValueFrom(_, _, _, _)
\* the loop of emit_block_value over statements[i..]
EmitBlockValueFrom(e, ss, i, target_reg) ==
    IF i > Len(ss) THEN e
    ELSE LET stmt == ss[i]
             e1 == IF i # Len(ss) THEN Emit("emit_stmt", e, stmt, 0, 0, FALSE)
                   ELSE CASE stmt.k = "Expr" -> Emit("emit_expr", e, stmt.kids[1], target_reg, 0, FALSE)
                          [] stmt.k = "If" -> Emit("emit_if_with_result", e, stmt, target_reg, 0, FALSE)
                          [] stmt.k = "Return" ->
                               IF stmt.kids # <<>> THEN Emit("emit_expr", e, stmt.kids[1], target_reg, 0, FALSE)
                               ELSE EmitLoadK(e, target_reg, NullV)
                          [] OTHER -> EmitLoadK(Emit("emit_stmt", e, stmt, 0, 0, FALSE), target_reg, NullV)
         IN EmitBlockValueFrom(e1, ss, i + 1, target_reg)

emit_block_value(e, block, target_reg) ==
    IF block.kids = <<>> THEN EmitLoadK(e, target_reg, NullV)
    ELSE EmitBlockValueFrom(e, block.kids, 1, target_reg)

emit_if_with_result(e, stmt, result_reg) ==
    LET c == allocate_register(e)
        e1 == Emit("emit_expr", c.e, stmt.kids[1], c.reg, 0, FALSE)
        jmp_if_false_ip == get_ip(e1)
        e2 == emit_instruction(e1, new2("JIF", c.reg, 0))
        e3 == emit_block_value(e2, stmt.kids[2], result_reg)
        jump_over_else_ip == get_ip(e3)
        e4 == emit_instruction(e3, new1("JMP", 0))
        else_start_ip == get_ip(e4)
        e5 == patch_jump_target(e4, jmp_if_false_ip, else_start_ip)
        e6 == IF ElseBranch(stmt) # <<>> THEN emit_block_value(e5, ElseBranch(stmt)[1], result_reg)
              ELSE EmitLoadK(e5, result_reg, NullV)
    IN patch_jump_target(e6, jump_over_else_ip, get_ip(e6))

\* emit_function: the chunk of one function, or the panic that ended emission
emit_function(e, func) ==
    LET e0 == [e EXCEPT !.register_counter = func.n % (U8_MAX + 1)]
        e1 == emit_block(e0, FuncBody(func), TRUE)
        e2 == emit_null_return(e1)
    IN [panic |-> e2.panic, chunk |-> Chunk(e2.code, e2.constants, e2.max_registers)]

RECURSIVE emit_decls(_, _, _)
emit_decls(ds, i, overflow_checks) ==
    IF i > Len(ds) THEN [panic |-> "", chunks |-> <<>>]
    ELSE IF ds[i].k # "FuncDecl" THEN emit_decls(ds, i + 1, overflow_checks)
    ELSE LET f == Emit("emit_function", Emitter_new(overflow_checks), ds[i], 0, 0, FALSE)
             t == emit_decls(ds, i + 1, overflow_checks)
         IN IF f.panic # "" THEN [panic |-> f.panic, chunks |-> <<>>]
            ELSE [panic |-> t.panic, chunks |-> IF t.panic # "" THEN <<>> ELSE <<f.chunk>> \o t.chunks]

\* emit_program: one chunk per function declaration, in order
emit_program(e, declarations) == emit_decls(declarations, 1, e.overflow_checks)

\* a panic ends the emission: no function does anything to a panicked emitter
Emit(fn, e, x, a, b, flag) ==
    IF e.panic # "" THEN e
    ELSE CASE fn = "emit_expr" -> emit_expr(e, x, a)
           [] fn = "emit_stmt" -> emit_stmt(e, x)
           [] fn = "emit_stmts" -> emit_stmts(e, x, a, b, flag)
           [] fn = "emit_if_with_result" -> emit_if_with_result(e, x, a)
           [] fn = "emit_function" -> emit_function(e, x)
           [] fn = "emit_program" -> emit_program(e, x)

\* ------------------------------------------------------------------------
\* The VM driven directly through its public interface (new, set_runtime,
\* push_frame, run), on hand-assembled chunks as in brief-vm/tests/vm.rs
\* ------------------------------------------------------------------------
MaxFrames == 2

VmChunks == <<
    \* 10 + 20, returned
    Chunk(<<new2("LOADK", 0, 0), new2("LOADK", 1, 1), Instr("ADD", 2, 0, 1), new1("RET", 2)>>,
          <<IntV(10), IntV(20)>>, 3),
    \* no RET: runs off the end of the code
    Chunk(<<new2("LOADK", 0, 0), new2("MOVE", 1, 0), new2("NEG", 1, 1)>>, <<IntV(42)>>, 2),
    \* conditional skip and a call of a built-in
    Chunk(<<new2("LOADK", 0, 0), set_offset(new2("JIF", 0, 0), 1), new2("NOT", 0, 0),
            new2("LOADK", 1, 1), new2("MOVE", 2, 0), Instr("CALL", 0, 1, 1),
            new1("PRINT", 0), new1("RET", 2)>>,
          <<BoolV(FALSE), StrV("print")>>, 3),
    \* forward jump over a failing instruction, then a type error
    Chunk(<<set_offset(new1("JMP", 0), 1), new1("EXT", 0), new2("LOADK", 1, 0),
            Instr("SUB", 0, 0, 1), new1("RET", 0)>>,
          <<IntV(1)>>, 2),
    \* a loop taken once: forward JIF, backward JMP, then JIF on a truthy value
    Chunk(<<new2("LOADK", 0, 0), set_offset(new2("JIF", 0, 0), 2), new1("RET", 0),
            new1("EXT", 0), new2("NOT", 0, 0), set_offset(new1("JMP", 0), 0 - 5)>>,
          <<BoolV(FALSE)>>, 1),
    \* JIF on a falsy register to before the first instruction
    Chunk(<<set_offset(new1("JMP", 0), 1), new1("EXT", 0),
            set_offset(new2("JIF", 0, 0), 0 - 4)>>, <<>>, 1),
    \* JMP past the end of the code
    Chunk(<<set_offset(new1("JMP", 0), 1)>>, <<>>, 1),
    \* JMP to the end of the code
    Chunk(<<set_offset(new1("JMP", 0), 1), new1("EXT", 0)>>, <<>>, 1),
    \* a call of a built-in with two arguments
    Chunk(<<new2("LOADK", 0, 0), new2("LOADK", 1, 1), new2("LOADK", 2, 2),
            Instr("CALL", 3, 0, 2), new1("RET", 3)>>,
          <<StrV("rt_concat2"), StrV("a"), StrV("b")>>, 4),
    \* a call of a callee that is no string
    Chunk(<<new2("LOADK", 1, 0), new2("LOADK", 2, 1), Instr("CALL", 0, 1, 1), new1("RET", 0)>>,
          <<IntV(1), StrV("a")>>, 3)
>>

push_frame ==
    /\ vm_state = "idle"
    /\ Len(frames) < MaxFrames
    /\ \E i \in 1..Len(VmChunks) : frames' = Append(frames, Frame_new(VmChunks[i]))
    /\ UNCHANGED <<vm_state, vm_result, vm_runtime, vm_last>>

set_runtime ==
    /\ vm_state = "idle"
    /\ ~vm_runtime
    /\ vm_runtime' = TRUE
    /\ UNCHANGED <<frames, vm_state, vm_result, vm_last>>

NoHir == [ok |-> FALSE, declarations |-> <<>>, errors |-> <<>>]
NoEmit == [panic |-> "", chunks |-> <<>>]

VM_new ==
    /\ frames = <<>>
    /\ vm_state = "idle"
    /\ vm_result = NoResult
    /\ vm_runtime = FALSE
    /\ vm_last = ""

\* the pipeline is not used
NoPipeline ==
    /\ pl_stage = "off"
    /\ pl_prog = 0
    /\ pl_checks = FALSE
    /\ pl_hir = NoHir
    /\ pl_emit = NoEmit
    /\ pl_flow = <<>>

NoParse == [program |-> <<>>, errors |-> <<>>]

\* no Parser has been made
NoParser == parser = Parser_new(<<>>) /\ parser_at = "off"

\* the front end is not used
NoFront ==
    /\ fe_stage = "off"
    /\ lx = Lexer_new(<<>>)
    /\ lx_tokens = <<>>
    /\ lx_at_line_start = TRUE
    /\ parse_out = NoParse
    /\ NoParser

\* no chunk is under construction
NoPool == ck = Emitter_new(FALSE) /\ ck_calls = <<>>

VmInit == VM_new /\ NoPipeline /\ NoFront /\ NoPool

VmNext ==
    \/ push_frame /\ UNCHANGED <<pl_vars, fe_vars, ck_vars>>
    \/ set_runtime /\ UNCHANGED <<pl_vars, fe_vars, ck_vars>>
    \/ RunEnter /\ UNCHANGED <<pl_vars, fe_vars, ck_vars>>
    \/ RunNoFrame /\ UNCHANGED <<pl_vars, fe_vars, ck_vars>>
    \/ RunEndOfCode /\ UNCHANGED <<pl_vars, fe_vars, ck_vars>>
    \/ RunExec /\ UNCHANGED <<pl_vars, fe_vars, ck_vars>>
    \/ RunRet /\ UNCHANGED <<pl_vars, fe_vars, ck_vars>>

SpecVM == VmInit /\ [][VmNext]_vars

\* The arithmetic opcodes, each on every pair of these operands: the chunk
\* loads the operands into registers 0 and 1 and puts the result in register 2
ArithOps == {"ADD", "SUB", "MUL", "DIVF", "DIVI", "MOD", "POW"}
ArithOperands ==
    {IntV(0 - 7), IntV(0), IntV(2), DoubleV(0), DoubleV(2), DoubleQ(1, 2), DoubleQ(0 - 3, 2),
     NullV, StrV("a")}
ArithChunk(op, l, r) ==
    Chunk(<<new2("LOADK", 0, 0), new2("LOADK", 1, 1), Instr(op, 2, 0, 1), new1("RET", 2)>>,
          <<l, r>>, 3)

ArithInit ==
    /\ \E op \in ArithOps, l \in ArithOperands, r \in ArithOperands :
         frames = <<Frame_new(ArithChunk(op, l, r))>>
    /\ vm_state = "idle"
    /\ vm_result = NoResult
    /\ vm_runtime = FALSE
    /\ vm_last = ""
    /\ NoPipeline
    /\ NoFront
    /\ NoPool

ArithNext ==
    \/ RunEnter /\ UNCHANGED <<pl_vars, fe_vars, ck_vars>>
    \/ RunNoFrame /\ UNCHANGED <<pl_vars, fe_vars, ck_vars>>
    \/ RunExec /\ UNCHANGED <<pl_vars, fe_vars, ck_vars>>
    \/ RunRet /\ UNCHANGED <<pl_vars, fe_vars, ck_vars>>

SpecArith == ArithInit /\ [][ArithNext]_vars

\* Chunk::add_constant called on a new chunk, a few times, with these
\* constants
MaxCalls == 3
PoolConstants ==
    {IntV(42), IntV(7), DoubleQ(3, 2), NaN, StrV("a"), BoolV(TRUE), NullV}

AddConstant ==
    /\ Len(ck_calls) < MaxCalls
    /\ \E c \in PoolConstants :
         LET r == add_constant(ck, c)
         IN /\ ck' = r.e
            /\ ck_calls' = Append(ck_calls, [constant |-> c, idx |-> r.idx,
                                             len |-> Len(r.e.constants)])

PoolInit == VM_new /\ NoPipeline /\ NoFront /\ NoPool
PoolNext == AddConstant /\ UNCHANGED <<vm_vars, pl_vars, fe_vars>>
SpecPool == PoolInit /\ [][PoolNext]_vars

\* Instruction::new and then set_offset, again and again, on the one
\* instruction word of ck.code; ck_calls holds the last call of set_offset:
\* the word it was called on and the displacement
OperandBytes == {0, 1, 127, 128, 255}
OpcodeBytes == {0, 1, 22, 23}
Displacements ==
    {0 - 32768, 0 - 32767, 0 - 257, 0 - 256, 0 - 255, 0 - 129, 0 - 128, 0 - 2, 0 - 1,
     0, 1, 2, 127, 128, 255, 256, 257, 32766, 32767}

NewInstruction ==
    /\ ck.code = <<>>
    /\ \E op \in OpcodeBytes, a, b, c \in OperandBytes :
         ck' = [ck EXCEPT !.code = <<Instruction_new(op, a, b, c)>>]
    /\ UNCHANGED ck_calls

SetOffset ==
    /\ ck.code # <<>>
    /\ \E d \in Displacements :
         /\ ck' = [ck EXCEPT !.code[1] = Instruction_set_offset(@, d)]
         /\ ck_calls' = <<[inst |-> ck.code[1], off |-> d]>>

OffsetInit == VM_new /\ NoPipeline /\ NoFront /\ NoPool
OffsetNext == (NewInstruction \/ SetOffset) /\ UNCHANGED <<vm_vars, pl_vars, fe_vars>>
SpecOffset == OffsetInit /\ [][OffsetNext]_vars

\* ------------------------------------------------------------------------
\* The pipeline of brief-cli/tests/integration_tests.rs (run_code): lower,
\* emit_bytecode, VM::new, set_runtime, push_frame(chunks[0]), run. The
\* programs are given as the syntax trees of their source text.
\* ------------------------------------------------------------------------
Def(name, statements) == FuncDecl(name, <<>>, Block(statements))

\* number of expression statements in the long straight-line body
ManyStatements == 256

Programs == <<
    \* 1: def test()  x := 0  while (x < 3)  x := x + 1   x
    <<Def("test", <<VarDecl("x", <<Integer(0)>>),
                    While(BinaryOp(Variable("x"), "Lt", Integer(3)),
                          Block(<<VarDecl("x", <<BinaryOp(Variable("x"), "Add", Integer(1))>>)>>)),
                    ExprStmt(Variable("x"))>>)>>,
    \* 2: the same loop written with an assignment expression, returned by ret
    <<Def("test", <<VarDecl("x", <<Integer(0)>>),
                    While(BinaryOp(Variable("x"), "Lt", Integer(3)),
                          Block(<<ExprStmt(Assign(Variable("x"),
                                                  BinaryOp(Variable("x"), "Add", Integer(1))))>>)),
                    Return(<<Variable("x")>>)>>)>>,
    \* 3: def test()  x := 10  x + 5
    <<Def("test", <<VarDecl("x", <<Integer(10)>>),
                    ExprStmt(BinaryOp(Variable("x"), "Add", Integer(5)))>>)>>,
    \* 4: def test()  if (5 > 3) 10 else 20
    <<Def("test", <<If(BinaryOp(Integer(5), "Gt", Integer(3)),
                       Block(<<ExprStmt(Integer(10))>>),
                       <<Block(<<ExprStmt(Integer(20))>>)>>)>>)>>,
    \* 5: a ternary as the tail expression, after one in a statement
    <<Def("test", <<VarDecl("y", <<Ternary(Boolean(FALSE), Integer(1), Integer(2))>>),
                    ExprStmt(Ternary(BinaryOp(Variable("y"), "Eq", Integer(2)),
                                     Integer(7), Integer(8)))>>)>>,
    \* 6: && and ||, an if/else statement and a compound assignment
    <<Def("test", <<VarDecl("a", <<BinaryOp(Boolean(TRUE), "And", Boolean(FALSE))>>),
                    VarDecl("b", <<BinaryOp(Variable("a"), "Or", Boolean(TRUE))>>),
                    VarDecl("n", <<Integer(1)>>),
                    If(Variable("b"),
                       Block(<<ExprStmt(BinaryOp(Variable("n"), "PlusAssign", Integer(4)))>>),
                       <<Block(<<ExprStmt(BinaryOp(Variable("n"), "StarAssign", Integer(2)))>>)>>),
                    Return(<<UnaryOp("Neg", Variable("n"))>>)>>)>>,
    \* 7: calls of built-ins, nested
    <<Def("test", <<ExprStmt(Call(Variable("print"), <<String("Hello")>>)),
                    ExprStmt(Call(Variable("str"),
                                  <<Call(Variable("int"), <<BinaryOp(Integer(2), "Mul", Integer(3))>>)>>))>>)>>,
    \* 8: a loop with a conditional in its body, break and a bare ret; a second function
    <<Def("main", <<VarDecl("i", <<Integer(0)>>),
                    While(UnaryOp("Not", BinaryOp(Variable("i"), "Ge", Integer(2))),
                          Block(<<If(BinaryOp(Variable("i"), "Eq", Integer(1)),
                                     Block(<<Break>>), <<>>),
                                  ExprStmt(BinaryOp(Variable("i"), "Assign",
                                                    BinaryOp(Variable("i"), "Add", Integer(1))))>>)),
                    Return(<<>>)>>),
      FuncDecl("f", <<Param("p")>>, Block(<<ExprStmt(BinaryOp(Variable("p"), "Sub", Integer(1)))>>))>>,
    \* 9: an undefined variable
    <<Def("test", <<ExprStmt(Variable("nope"))>>)>>,
    \* 10: a name declared twice in one scope
    <<Def("test", <<VarDecl("x", <<Integer(1)>>), VarDecl("x", <<Integer(2)>>)>>)>>,
    \* 11: a unary plus, which the emitter does not support
    <<Def("test", <<VarDecl("x", <<>>), ExprStmt(UnaryOp("Pos", Integer(5)))>>)>>,
    \* 12: no function at all
    <<VarDecl("g", <<Integer(1)>>)>>,
    \* 13: a long straight-line body: ManyStatements times the statement 0
    <<Def("test", [i \in 1..ManyStatements |-> ExprStmt(Integer(0))])>>,
    \* 14: def test()  x := 0  y := 0  if (true) x = 1 else x = 2
    \*     if (false) y = 10 else y = 20   ret x + y
    <<Def("test", <<VarDecl("x", <<Integer(0)>>),
                    VarDecl("y", <<Integer(0)>>),
                    If(Boolean(TRUE),
                       Block(<<ExprStmt(BinaryOp(Variable("x"), "Assign", Integer(1)))>>),
                       <<Block(<<ExprStmt(BinaryOp(Variable("x"), "Assign", Integer(2)))>>)>>),
                    If(Boolean(FALSE),
                       Block(<<ExprStmt(BinaryOp(Variable("y"), "Assign", Integer(10)))>>),
                       <<Block(<<ExprStmt(BinaryOp(Variable("y"), "Assign", Integer(20)))>>)>>),
                    Return(<<BinaryOp(Variable("x"), "Add", Variable("y"))>>)>>)>>,
    \* 15: def test()  x := 5  x++   (the AST: x++ is a postfix expression)
    <<Def("test", <<VarDecl("x", <<Integer(5)>>),
                    ExprStmt(PostfixOp(Variable("x"), "Inc"))>>)>>,
    \* 16: def test()  x := 5  x = x + 1
    <<Def("test", <<VarDecl("x", <<Integer(5)>>),
                    ExprStmt(BinaryOp(Variable("x"), "Assign",
                                      BinaryOp(Variable("x"), "Add", Integer(1))))>>)>>,
    \* 17: def test()  x := 5  x++  ret x
    <<Def("test", <<VarDecl("x", <<Integer(5)>>),
                    ExprStmt(PostfixOp(Variable("x"), "Inc")),
                    Return(<<Variable("x")>>)>>)>>,
    \* 18: def test(p)  x := 5  ret p
    <<FuncDecl("test", <<Param("p")>>,
               Block(<<VarDecl("x", <<Integer(5)>>), Return(<<Variable("p")>>)>>))>>,
    \* 19: def test()  y := true ? 1 : 2   ret y
    <<Def("test", <<VarDecl("y", <<Ternary(Boolean(TRUE), Integer(1), Integer(2))>>),
                    Return(<<Variable("y")>>)>>)>>
>>

\* number of statements 0 in the body of the loop of the long program
LongLoopBody == 65531

\* def main()  while (false) { 0 0 .. 0 }
LongProgram ==
    <<Def("main", <<While(Boolean(FALSE), Block([i \in 1..LongLoopBody |-> ExprStmt(Integer(0))]))>>)>>

\* the index pl_prog has for the long program
LongIndex == Len(Programs) + 1

\* ------------------------------------------------------------------------
\* The control flow of a chunk: the length of its code and its RET, JMP and
\* JIF instructions, each with its index (from 0)
\* ------------------------------------------------------------------------
ControlInstructions(c) == {i \in 0..(Len(c.code) - 1) : c.code[i + 1].op \in {"RET", "JMP", "JIF"}}

ControlFlow(c) ==
    [len |-> Len(c.code),
     ctl |-> {[i |-> i, op |-> c.code[i + 1].op, d |-> offset(c.code[i + 1])] :
              i \in ControlInstructions(c)}]

ControlFlows(chunks) == [k \in 1..Len(chunks) |-> ControlFlow(chunks[k])]

\* where run() may continue after the RET, JMP or JIF j
Continuations(j) ==
    CASE j.op = "RET" -> {}
      [] j.op = "JMP" -> {j.i + 1 + j.d}
      [] j.op = "JIF" -> {j.i + 1, j.i + 1 + j.d}

RECURSIVE FallsOffFrom(_, _, _)
\* some path from an ip of todo reaches ip = code.len() without a RET; a jump
\* outside 0..code.len() ends the path with an error
FallsOffFrom(cf, todo, seen) ==
    IF todo = {} THEN FALSE
    ELSE LET ip == CHOOSE p \in todo : TRUE
             ahead == {j \in cf.ctl : j.i >= ip}
         IN IF ip = cf.len THEN TRUE
            ELSE IF ip < 0 \/ ip > cf.len
            THEN FallsOffFrom(cf, todo \ {ip}, seen \cup {ip})
            ELSE IF ahead = {} THEN TRUE
            ELSE FallsOffFrom(cf,
                              (todo \cup Continuations(CHOOSE j \in ahead : \A r \in ahead : j.i <= r.i))
                                  \ (seen \cup {ip}),
                              seen \cup {ip})

FallsOffTheEnd(cf) == FallsOffFrom(cf, {0}, {})

\* run_code up to the HIR
Lower ==
    /\ pl_stage = "source"
    /\ pl_prog \in 1..Len(Programs)
    /\ pl_hir' = lower(Programs[pl_prog])
    /\ pl_stage' = IF pl_hir'.ok THEN "lowered" ELSE "lower_failed"
    /\ UNCHANGED <<pl_prog, pl_checks, pl_emit, pl_flow, vm_vars>>

\* emit_bytecode
EmitBytecode ==
    /\ pl_stage = "lowered"
    /\ pl_emit' = Emit("emit_program", Emitter_new(pl_checks), pl_hir.declarations, 0, 0, FALSE)
    /\ pl_flow' = ControlFlows(pl_emit'.chunks)
    /\ pl_stage' = IF pl_emit'.panic # "" THEN "panicked" ELSE "emitted"
    /\ UNCHANGED <<pl_prog, pl_checks, pl_hir, vm_vars>>

\* lower and emit_bytecode on the long program, of whose chunks only the
\* control flow is kept
CompileLong ==
    /\ pl_stage = "source"
    /\ pl_prog = LongIndex
    /\ \E hir \in {lower(LongProgram)} :
         \E o \in {Emit("emit_program", Emitter_new(pl_checks), hir.declarations, 0, 0, FALSE)} :
            /\ pl_flow' = ControlFlows(o.chunks)
            /\ pl_stage' = IF o.panic # "" THEN "panicked" ELSE "flow"
    /\ UNCHANGED <<pl_prog, pl_checks, pl_hir, pl_emit, vm_vars>>

\* no chunk: run_code returns Null; else a VM with a runtime and chunks[0] pushed
Load ==
    /\ pl_stage = "emitted"
    /\ IF pl_emit.chunks = <<>>
       THEN /\ pl_stage' = "done"
            /\ vm_result' = Ok(NullV)
            /\ UNCHANGED <<frames, vm_state, vm_runtime, vm_last>>
       ELSE /\ pl_stage' = "loaded"
            /\ frames' = <<Frame_new(pl_emit.chunks[1])>>
            /\ vm_runtime' = TRUE
            /\ UNCHANGED <<vm_state, vm_result, vm_last>>
    /\ UNCHANGED <<pl_prog, pl_checks, pl_hir, pl_emit, pl_flow>>

\* vm.run() is called
Run ==
    /\ pl_stage = "loaded"
    /\ RunEnter
    /\ pl_stage' = "running"
    /\ UNCHANGED <<pl_prog, pl_checks, pl_hir, pl_emit, pl_flow>>

\* one turn of the loop of run()
Step ==
    /\ pl_stage = "running"
    /\ VmRun
    /\ pl_stage' = IF vm_state' = "idle" THEN "done" ELSE "running"
    /\ UNCHANGED <<pl_prog, pl_checks, pl_hir, pl_emit, pl_flow>>

PipelineInit ==
    /\ VM_new
    /\ pl_stage = "source"
    /\ pl_prog \in 1..Len(Programs)
    /\ pl_checks \in BOOLEAN
    /\ pl_hir = NoHir
    /\ pl_emit = NoEmit
    /\ pl_flow = <<>>
    /\ NoFront
    /\ NoPool

PipelineNext ==
    \/ Lower /\ UNCHANGED <<fe_vars, ck_vars>>
    \/ EmitBytecode /\ UNCHANGED <<fe_vars, ck_vars>>
    \/ Load /\ UNCHANGED <<fe_vars, ck_vars>>
    \/ Run /\ UNCHANGED <<fe_vars, ck_vars>>
    \/ Step /\ UNCHANGED <<fe_vars, ck_vars>>

SpecPipeline == PipelineInit /\ [][PipelineNext]_vars

\* the pipeline on the long program as well
LongInit ==
    /\ VM_new
    /\ pl_stage = "source"
    /\ pl_prog \in 1..LongIndex
    /\ pl_checks \in BOOLEAN
    /\ pl_hir = NoHir
    /\ pl_emit = NoEmit
    /\ pl_flow = <<>>
    /\ NoFront
    /\ NoPool

LongNext == PipelineNext \/ (CompileLong /\ UNCHANGED <<fe_vars, ck_vars>>)

SpecLong == LongInit /\ [][LongNext]_vars

\* ------------------------------------------------------------------------
\* lower() on small programs with spans: what desugar returned is in pl_hir,
\* and resolve works on it in place. A program is the function f, with up to
\* two parameters p and a body of up to MaxScopeBody statements, followed by
\* nothing, by a second f or by g := f. The statement in place s of the body
\* has the spans from 10 * s, the function 100, its parameters 101 and 102,
\* the declaration after it 200
\* ------------------------------------------------------------------------
MaxScopeBody == 2
ScopeKinds == 1..7

ScopeStmt(kind, at) ==
    CASE kind = 1 -> At(VarDecl("x", <<Integer(1)>>), at)
      [] kind = 2 -> At(VarDecl("y", <<At(Variable("x"), at + 1)>>), at)
      [] kind = 3 -> ExprStmt(At(Variable("y"), at))
      [] kind = 4 -> While(Boolean(TRUE),
                           Block(<<At(VarDecl("x", <<>>), at + 1),
                                   ExprStmt(At(Variable("z"), at + 2))>>))
      [] kind = 5 -> ExprStmt(At(Interpolation(<<InterpText("a"), At(InterpIdent("x"), at + 1)>>), at))
      [] kind = 6 -> ExprStmt(Call(At(Variable("print"), at), <<At(Variable("p"), at + 1)>>))
      [] kind = 7 -> At(VarDecl("p", <<>>), at)

ScopeBodies ==
    {[s \in DOMAIN kinds |-> ScopeStmt(kinds[s], 10 * s)] :
        kinds \in UNION {[1..n -> ScopeKinds] : n \in 0..MaxScopeBody}}

ScopeParams == {<<>>, <<At(Param("p"), 101)>>, <<At(Param("p"), 101), At(Param("p"), 102)>>}

ScopeTails ==
    {<<>>,
     <<At(Def("f", <<>>), 200)>>,
     <<At(VarDecl("g", <<At(Variable("f"), 201)>>), 200)>>}

ScopePrograms ==
    {<<At(FuncDecl("f", params, Block(body)), 100)>> \o tail :
        params \in ScopeParams, body \in ScopeBodies, tail \in ScopeTails}

\* lower(program) after desugar: resolve, and Ok or Err
Resolve_ ==
    /\ pl_stage = "desugared"
    /\ pl_hir' = resolve_program(pl_hir.declarations)
    /\ pl_stage' = IF pl_hir'.ok THEN "lowered" ELSE "lower_failed"
    /\ UNCHANGED <<pl_prog, pl_checks, pl_emit, pl_flow, vm_vars, fe_vars, ck_vars>>

ResolveInit ==
    /\ VM_new
    /\ pl_stage = "desugared"
    /\ pl_prog = 0
    /\ pl_checks = FALSE
    /\ \E program \in ScopePrograms :
         pl_hir = [ok |-> FALSE, declarations |-> program, errors |-> <<>>]
    /\ pl_emit = NoEmit
    /\ pl_flow = <<>>
    /\ NoFront
    /\ NoPool

SpecResolve == ResolveInit /\ [][Resolve_]_vars

\* ------------------------------------------------------------------------
\* lower() on ASTs: the AST is in parse_out, as the parser's; desugar puts the
\* HIR in pl_hir and resolve works on it. The programs are: a function whose
\* body is a match on an integer, with up to MaxCases cases returning the
\* number of the case and perhaps an else block returning 0; a class Dog
\* whose constructor has up to two parameters and a body of up to MaxCtorBody
\* statements; and some functions with loops
\* ------------------------------------------------------------------------
MaxCases == 2
MaxCtorBody == 2

CasePatterns == {<<1>>, <<2>>, <<2, 1>>, <<3>>}
Scrutinees == {1, 2, 3}

\* case number i with these patterns: spans from 100 * i
AstCase(i, patterns) ==
    At(MatchCase([j \in 1..Len(patterns) |-> At(Integer(patterns[j]), 100 * i + j)],
                 At(Block(<<At(Return(<<At(Integer(i), 100 * i + 51)>>), 100 * i + 50)>>),
                    100 * i + 40)),
       100 * i)

AstElses == {<<>>, <<At(Block(<<At(Return(<<At(Integer(0), 902)>>), 901)>>), 900)>>}

MatchPrograms ==
    {<<At(Def("test", <<At(Match(At(Integer(v), 11),
                                 [i \in DOMAIN patterns |-> AstCase(i, patterns[i])],
                                 else_branch), 10)>>), 1)>> :
        v \in Scrutinees,
        patterns \in UNION {[1..n -> CasePatterns] : n \in 0..MaxCases},
        else_branch \in AstElses}

\* a statement of a constructor's body, in place s: obj.name = name as the
\* parser gives it, print(name), obj.name++, obj.age = 1
CtorStmt(kind, at) ==
    CASE kind = 1 -> At(ExprStmt(At(BinaryOp(At(MemberAccess(At(Variable("obj"), at + 1), "name"), at + 2),
                                             "Assign", At(Variable("name"), at + 3)), at + 4)), at)
      [] kind = 2 -> At(ExprStmt(At(Call(At(Variable("print"), at + 1),
                                         <<At(Variable("name"), at + 2)>>), at + 3)), at)
      [] kind = 3 -> At(ExprStmt(At(PostfixOp(At(MemberAccess(At(Variable("obj"), at + 1), "name"), at + 2),
                                              "Inc"), at + 3)), at)
      [] kind = 4 -> At(ExprStmt(At(BinaryOp(At(MemberAccess(At(Variable("obj"), at + 1), "age"), at + 2),
                                             "Assign", At(Integer(1), at + 3)), at + 4)), at)

CtorParams == {<<>>, <<At(Param("name"), 3)>>, <<At(Param("name"), 3), At(Param("age"), 4)>>}

ClassPrograms ==
    {<<At(ClassDecl("Dog",
                    <<At(CtorDecl("Dog", params,
                                  At(Block([s \in DOMAIN kinds |-> CtorStmt(kinds[s], 10 * s)]), 5)),
                         2)>>,
                    <<>>), 1)>> :
        params \in CtorParams,
        kinds \in UNION {[1..n -> 1..4] : n \in 0..MaxCtorBody}}

PrintOf(name, at) ==
    At(ExprStmt(At(Call(At(Variable("print"), at + 1), <<At(Variable(name), at + 2)>>), at + 3)), at)

LoopPrograms ==
    {\* def test(arr)  for (v in arr) print(v)
     <<At(FuncDecl("test", <<At(Param("arr"), 2)>>,
                   Block(<<At(ForIn("v", At(Variable("arr"), 11), Block(<<PrintOf("v", 20)>>)), 10)>>)), 1)>>,
     \* def test(arr)  for (v in arr) for (w in arr) print(w)
     <<At(FuncDecl("test", <<At(Param("arr"), 2)>>,
                   Block(<<At(ForIn("v", At(Variable("arr"), 11),
                                    Block(<<At(ForIn("w", At(Variable("arr"), 21),
                                                     Block(<<PrintOf("w", 30)>>)), 20)>>)), 10)>>)), 1)>>,
     \* def test(arr)  for (v in arr) match (v) case 1 print(v)
     <<At(FuncDecl("test", <<At(Param("arr"), 2)>>,
                   Block(<<At(ForIn("v", At(Variable("arr"), 11),
                                    Block(<<At(Match(At(Variable("v"), 21),
                                                     <<At(MatchCase(<<At(Integer(1), 23)>>,
                                                                    Block(<<PrintOf("v", 30)>>)), 22)>>,
                                                     <<>>), 20)>>)), 10)>>)), 1)>>,
     \* def test()  for (i := 0; i < 3; i++) print(i)
     <<At(Def("test", <<At(For(At(VarDecl("i", <<At(Integer(0), 12)>>), 11),
                               At(BinaryOp(At(Variable("i"), 13), "Lt", At(Integer(3), 14)), 15),
                               At(PostfixOp(At(Variable("i"), 16), "Inc"), 17),
                               Block(<<PrintOf("i", 20)>>)), 10)>>), 1)>>,
     \* def test()  for (;;) print(nope)
     <<At(Def("test", <<At(For(Absent, Absent, Absent, Block(<<PrintOf("nope", 20)>>)), 10)>>), 1)>>}

AstPrograms == MatchPrograms \cup ClassPrograms \cup LoopPrograms

\* lower(program): desugar
Desugar_ ==
    /\ pl_stage = "ast"
    /\ pl_hir' = [ok |-> FALSE, declarations |-> desugar(parse_out.program), errors |-> <<>>]
    /\ pl_stage' = "desugared"
    /\ UNCHANGED <<pl_prog, pl_checks, pl_emit, pl_flow, vm_vars, fe_vars, ck_vars>>

DesugarInit ==
    /\ VM_new
    /\ pl_stage = "ast"
    /\ pl_prog = 0
    /\ pl_checks = FALSE
    /\ pl_hir = NoHir
    /\ pl_emit = NoEmit
    /\ pl_flow = <<>>
    /\ fe_stage = "off"
    /\ lx = Lexer_new(<<>>)
    /\ lx_tokens = <<>>
    /\ lx_at_line_start = TRUE
    /\ \E program \in AstPrograms : parse_out = [program |-> program, errors |-> <<>>]
    /\ NoParser
    /\ NoPool

DesugarNext == Desugar_ \/ Resolve_
SpecDesugar == DesugarInit /\ [][DesugarNext]_vars

\* ------------------------------------------------------------------------
\* The front end: lex(source), an iteration of its loop at a time, and then
\* parse(tokens) (brief-parser/tests/common.rs, parse_source)
\* ------------------------------------------------------------------------
\* lex(), lines 42-66, on a line that is not empty: the lexer and the tokens
\* after handle_indentation
LineStart ==
    IF lx_at_line_start
    THEN LET c == count_and_consume_leading_tabs(lx)
         IN handle_indentation(c.l, c.count, lx_tokens)
    ELSE [l |-> lx, tokens |-> lx_tokens]

InLoop == fe_stage = "lex" /\ ~is_at_end(lx)
EmptyLine == lx_at_line_start /\ is_empty_line(count_and_consume_leading_tabs(lx).l)

\* lines 42-60: a blank or comment-only line is consumed and gives no token
SkipEmptyLine ==
    /\ InLoop
    /\ EmptyLine
    /\ lx' = ConsumeLine(count_and_consume_leading_tabs(lx).l)
    /\ UNCHANGED <<lx_tokens, lx_at_line_start, fe_stage, parse_out, parser, parser_at>>

\* lines 69-72
SkipSpace ==
    /\ InLoop
    /\ ~EmptyLine
    /\ peek(LineStart.l) = " "
    /\ lx' = advance(LineStart.l)
    /\ lx_tokens' = LineStart.tokens
    /\ lx_at_line_start' = FALSE
    /\ UNCHANGED <<fe_stage, parse_out, parser, parser_at>>

\* lines 75-80: a tab that follows a space is left for the next iteration
TabInLine ==
    /\ InLoop
    /\ ~EmptyLine
    /\ peek(LineStart.l) = "\t"
    /\ lx' = LineStart.l
    /\ lx_tokens' = Append(LineStart.tokens, Token("Newline", "", 0))
    /\ lx_at_line_start' = TRUE
    /\ UNCHANGED <<fe_stage, parse_out, parser, parser_at>>

\* lines 83-91
EndOfLine ==
    /\ InLoop
    /\ ~EmptyLine
    /\ peek(LineStart.l) \in {"\n", "\r"}
    /\ lx' = ConsumeLine(LineStart.l)
    /\ lx_tokens' = Append(LineStart.tokens, Token("Newline", "", 0))
    /\ lx_at_line_start' = TRUE
    /\ UNCHANGED <<fe_stage, parse_out, parser, parser_at>>

\* lines 93-156
LexToken ==
    /\ InLoop
    /\ ~EmptyLine
    /\ peek(LineStart.l) \notin {" ", "\t", "\n", "\r"}
    /\ \E r \in {lex_token(LineStart.l, LineStart.tokens)} :
         /\ lx' = r.l
         /\ lx_tokens' = r.tokens
         /\ lx_at_line_start' = r.at_line_start
    /\ UNCHANGED <<fe_stage, parse_out, parser, parser_at>>

\* lines 159-178
LexFinish ==
    /\ fe_stage = "lex"
    /\ is_at_end(lx)
    /\ \E r \in {lex_finish(lx, lx_tokens)} :
         /\ lx' = r.l
         /\ lx_tokens' = r.tokens
    /\ fe_stage' = "lexed"
    /\ UNCHANGED <<lx_at_line_start, parse_out, parser, parser_at>>

\* brief_parser::parse
ParseTokens ==
    /\ fe_stage = "lexed"
    /\ \E r \in {Parse("parse", Parser_new(lx_tokens), <<>>, 0)} :
         parse_out' = [program |-> r.v, errors |-> r.p.errors]
    /\ fe_stage' = "parsed"
    /\ UNCHANGED <<lx, lx_tokens, lx_at_line_start, parser, parser_at>>

\* the characters of the short sources and the longest of these sources
LexChars == {"a", " ", "\t", "\n", "\r", "/", "*"}
MaxSourceLen == 5
ShortSources == UNION {[1..n -> LexChars] : n \in 0..MaxSourceLen}

LexInit ==
    /\ VM_new
    /\ NoPipeline
    /\ fe_stage = "lex"
    /\ lx \in {Lexer_new(s) : s \in ShortSources}
    /\ lx_tokens = <<>>
    /\ lx_at_line_start = TRUE
    /\ parse_out = NoParse
    /\ NoParser
    /\ NoPool

LexNext ==
    \/ SkipEmptyLine /\ UNCHANGED <<vm_vars, pl_vars, ck_vars>>
    \/ SkipSpace /\ UNCHANGED <<vm_vars, pl_vars, ck_vars>>
    \/ TabInLine /\ UNCHANGED <<vm_vars, pl_vars, ck_vars>>
    \/ EndOfLine /\ UNCHANGED <<vm_vars, pl_vars, ck_vars>>
    \/ LexToken /\ UNCHANGED <<vm_vars, pl_vars, ck_vars>>
    \/ LexFinish /\ UNCHANGED <<vm_vars, pl_vars, ck_vars>>

SpecLexer == LexInit /\ [][LexNext]_vars

\* the sources with a string literal: an opening quote and a few characters
StringChars == {"\"", "a", "&", " ", ".", "\\", "\t", "\n"}
MaxStringLen == 4
StringSources == UNION {[1..n -> StringChars] : n \in 0..MaxStringLen}

StringInit ==
    /\ VM_new
    /\ NoPipeline
    /\ fe_stage = "lex"
    /\ lx \in {Lexer_new(<<"\"">> \o s) : s \in StringSources}
    /\ lx_tokens = <<>>
    /\ lx_at_line_start = TRUE
    /\ parse_out = NoParse
    /\ NoParser
    /\ NoPool

SpecStrings == StringInit /\ [][LexNext]_vars

\* the sources given to the parser: `def f()`, a line break and an indented
\* body of up to MaxBodyLen statements, each with the statement it reads as;
\* and single statements as the body of a function
Header == <<"d", "e", "f", " ", "f", "(", ")">>
LineBreaks == {<<"\n", "\t">>, <<"\t">>, <<" ", "\t">>, <<"\n", "\n", "\t">>, <<"\r", "\n", "\t">>}
BodyStatements ==
    <<[text |-> <<"r", "e", "t", " ", "1">>, stmt |-> Return(<<Integer(1)>>)],
      [text |-> <<"1", " ", "+", " ", "2">>,
       stmt |-> ExprStmt(BinaryOp(Integer(1), "Add", Integer(2)))],
      [text |-> <<"r", "e", "t">>, stmt |-> Return(<<>>)]>>
MaxBodyLen == 2
Bodies == UNION {[1..n -> 1..Len(BodyStatements)] : n \in 1..MaxBodyLen}

RECURSIVE BodyText(_)
BodyText(body) ==
    BodyStatements[body[1]].text
    \o (IF Len(body) = 1 THEN <<"\n">> ELSE <<"\n", "\t">> \o BodyText(Tail(body)))

IndentedCases ==
    {[source |-> Header \o br \o BodyText(body),
      program |-> <<FuncDecl("f", <<>>,
                             Block([i \in 1..Len(body) |-> BodyStatements[body[i]].stmt]))>>] :
        br \in LineBreaks, body \in Bodies}

StatementCases ==
    {\* def test()\n\tx := 10\n\tx + 5\n
     [source |-> <<"d", "e", "f", " ", "t", "e", "s", "t", "(", ")", "\n",
                   "\t", "x", " ", ":", "=", " ", "1", "0", "\n",
                   "\t", "x", " ", "+", " ", "5", "\n">>,
      program |-> <<FuncDecl("test", <<>>,
                             Block(<<VarDecl("x", <<Integer(10)>>),
                                     ExprStmt(BinaryOp(Variable("x"), "Add", Integer(5)))>>))>>],
     \* def f() x + 5
     [source |-> Header \o <<" ", "x", " ", "+", " ", "5">>,
      program |-> <<FuncDecl("f", <<>>,
                             Block(<<ExprStmt(BinaryOp(Variable("x"), "Add", Integer(5)))>>))>>],
     \* def f() int(3.14)
     [source |-> Header \o <<" ", "i", "n", "t", "(", "3", ".", "1", "4", ")">>,
      program |-> <<FuncDecl("f", <<>>,
                             Block(<<ExprStmt(Call(Variable("int"),
                                                   <<Node("Double", "3.14", 0, 0, <<>>)>>))>>))>>],
     \* def f() print(x)
     [source |-> Header \o <<" ", "p", "r", "i", "n", "t", "(", "x", ")">>,
      program |-> <<FuncDecl("f", <<>>,
                             Block(<<ExprStmt(Call(Variable("print"), <<Variable("x")>>))>>))>>]}

FrontInit ==
    /\ VM_new
    /\ NoPipeline
    /\ fe_stage = "lex"
    /\ lx \in {Lexer_new(c.source) : c \in IndentedCases \cup StatementCases}
    /\ lx_tokens = <<>>
    /\ lx_at_line_start = TRUE
    /\ parse_out = NoParse
    /\ NoParser
    /\ NoPool

FrontNext == LexNext \/ (ParseTokens /\ UNCHANGED <<vm_vars, pl_vars, ck_vars>>)

SpecFront == FrontInit /\ [][FrontNext]_vars

\* ------------------------------------------------------------------------
\* run_code of brief-cli/tests/integration_tests.rs on a source text: lex,
\* parse, lower, emit_bytecode and run, with its early returns
\* ------------------------------------------------------------------------
\* the empty source, sources of blank lines, a module-level declaration, an
\* unterminated string, one-line functions (def f() ret 1, def f() 1 + 2,
\* def f() ret a), and the sources given to the parser
RunSources ==
    {<<>>, <<"\n">>, <<" ">>, <<"\n", "\n">>,
     <<"x", " ", ":", "=", " ", "1">>,
     <<"\"", "a">>,
     Header \o <<" ", "r", "e", "t", " ", "1">>,
     Header \o <<" ", "1", " ", "+", " ", "2">>,
     Header \o <<" ", "r", "e", "t", " ", "a">>}
    \cup {c.source : c \in IndentedCases \cup StatementCases}

\* if !lex_errors.is_empty() { return Err(..) }
LexFailed ==
    /\ pl_stage = "source"
    /\ fe_stage = "lexed"
    /\ lx.errors # <<>>
    /\ pl_stage' = "lex_failed"
    /\ vm_result' = Err("Lex errors")
    /\ UNCHANGED <<fe_vars, pl_prog, pl_checks, pl_hir, pl_emit, pl_flow, frames, vm_state,
                   vm_runtime, vm_last>>

\* parse(tokens, file_id)
ParseSource ==
    /\ pl_stage = "source"
    /\ lx.errors = <<>>
    /\ ParseTokens
    /\ UNCHANGED <<vm_vars, pl_vars>>

\* if !parse_errors.is_empty() { return Err(..) }
ParseFailed ==
    /\ pl_stage = "source"
    /\ fe_stage = "parsed"
    /\ parse_out.errors # <<>>
    /\ pl_stage' = "parse_failed"
    /\ vm_result' = Err("Parse errors")
    /\ UNCHANGED <<fe_vars, pl_prog, pl_checks, pl_hir, pl_emit, pl_flow, frames, vm_state,
                   vm_runtime, vm_last>>

\* lower(program)
LowerParsed ==
    /\ pl_stage = "source"
    /\ fe_stage = "parsed"
    /\ parse_out.errors = <<>>
    /\ pl_hir' = lower(parse_out.program)
    /\ pl_stage' = IF pl_hir'.ok THEN "lowered" ELSE "lower_failed"
    /\ vm_result' = IF pl_hir'.ok THEN vm_result ELSE Err("HIR errors")
    /\ UNCHANGED <<fe_vars, pl_prog, pl_checks, pl_emit, pl_flow, frames, vm_state,
                   vm_runtime, vm_last>>

RunCodeInit ==
    /\ VM_new
    /\ pl_stage = "source"
    /\ pl_prog = 0
    /\ pl_checks = FALSE
    /\ pl_hir = NoHir
    /\ pl_emit = NoEmit
    /\ pl_flow = <<>>
    /\ fe_stage = "lex"
    /\ lx \in {Lexer_new(s) : s \in RunSources}
    /\ lx_tokens = <<>>
    /\ lx_at_line_start = TRUE
    /\ parse_out = NoParse
    /\ NoParser
    /\ NoPool

RunCodeNext ==
    \/ LexNext
    \/ LexFailed /\ UNCHANGED ck_vars
    \/ ParseSource /\ UNCHANGED ck_vars
    \/ ParseFailed /\ UNCHANGED ck_vars
    \/ LowerParsed /\ UNCHANGED ck_vars
    \/ EmitBytecode /\ UNCHANGED <<fe_vars, ck_vars>>
    \/ Load /\ UNCHANGED <<fe_vars, ck_vars>>
    \/ Run /\ UNCHANGED <<fe_vars, ck_vars>>
    \/ Step /\ UNCHANGED <<fe_vars, ck_vars>>

SpecRunCode == RunCodeInit /\ [][RunCodeNext]_vars

\* ------------------------------------------------------------------------
\* Parser::parse on token lists, one iteration of its loops at a time: the
\* loop over the declarations (parser.rs:39-47) and, for a function whose body
\* begins with Indent, the loop over the statements of parse_block
\* (stmt.rs:53-60)
\* ------------------------------------------------------------------------
Tok(kind) == [kind |-> kind, text |-> IF kind = "Identifier" THEN "f" ELSE "", n |-> 0]

\* the token lists: nothing, `def f()` or `def f()` Indent, then up to
\* MaxParserTokens tokens of these kinds, then Eof
ParserKinds == {"Identifier", "Integer", "Ret", "RightParen", "Newline", "Dedent"}
MaxParserTokens == 3
ParserStarts ==
    {<<>>,
     <<Tok("Def"), Tok("Identifier"), Tok("LeftParen"), Tok("RightParen")>>,
     <<Tok("Def"), Tok("Identifier"), Tok("LeftParen"), Tok("RightParen"), Tok("Indent")>>}
ParserTokenLists ==
    {start \o [i \in DOMAIN kinds |-> Tok(kinds[i])] \o <<Tok("Eof")>> :
        start \in ParserStarts,
        kinds \in UNION {[1..n -> ParserKinds] : n \in 0..MaxParserTokens}}

\* parse_function_declaration up to its call of parse_block; p is at the 'def'
function_body_start(p) ==
    LET name == expect_identifier(Parser_advance(p), "Expected function name")
        params == parse_parameter_list(expect(name.p, "LeftParen",
                                              "Expected '(' after function name"))
        closed == expect(params.p, "RightParen", "Expected ')' after parameters")
    IN IF check(closed, "Arrow") THEN parse_type(Parser_advance(closed)) ELSE closed

\* one iteration of the loop of parse: a declaration and the newlines after
\* it; at a function whose body is indented, up to the loop of parse_block
ParseLoop ==
    /\ parser_at = "parse"
    /\ ~Parser_is_at_end(parser)
    /\ IF check(parser, "Def") /\ check(function_body_start(parser), "Indent")
       THEN /\ parser' = Parser_advance(function_body_start(parser))
            /\ parser_at' = "parse_block"
       ELSE /\ parser' = SkipNewlines(parse_declaration(parser).p)
            /\ parser_at' = "parse"
    /\ UNCHANGED <<fe_stage, lx, lx_tokens, lx_at_line_start, parse_out>>

\* the loop of parse ends
ParseReturn ==
    /\ parser_at = "parse"
    /\ Parser_is_at_end(parser)
    /\ parser_at' = "returned"
    /\ UNCHANGED <<parser, fe_stage, lx, lx_tokens, lx_at_line_start, parse_out>>

\* one iteration of the loop of parse_block: a statement and the newline
\* after it
BlockLoop ==
    /\ parser_at = "parse_block"
    /\ ~(check(parser, "Dedent") \/ Parser_is_at_end(parser))
    /\ \E s \in {Parse("parse_statement", parser, 0, 0)} :
         parser' = IF check(s.p, "Newline") THEN Parser_advance(s.p) ELSE s.p
    /\ UNCHANGED <<parser_at, fe_stage, lx, lx_tokens, lx_at_line_start, parse_out>>

\* the loop of parse_block ends: the Dedent is consumed, the function
\* declaration is complete, and parse skips the newlines after it
BlockReturn ==
    /\ parser_at = "parse_block"
    /\ check(parser, "Dedent") \/ Parser_is_at_end(parser)
    /\ parser' = SkipNewlines(IF check(parser, "Dedent") THEN Parser_advance(parser) ELSE parser)
    /\ parser_at' = "parse"
    /\ UNCHANGED <<fe_stage, lx, lx_tokens, lx_at_line_start, parse_out>>

ParserInit ==
    /\ VM_new
    /\ NoPipeline
    /\ fe_stage = "off"
    /\ lx = Lexer_new(<<>>)
    /\ lx_tokens = <<>>
    /\ lx_at_line_start = TRUE
    /\ parse_out = NoParse
    /\ parser \in {Parser_new(tokens) : tokens \in ParserTokenLists}
    /\ parser_at = "parse"
    /\ NoPool

ParserNext ==
    (ParseLoop \/ ParseReturn \/ BlockLoop \/ BlockReturn)
        /\ UNCHANGED <<vm_vars, pl_vars, ck_vars>>

SpecParser == ParserInit /\ [][ParserNext]_vars

\* ------------------------------------------------------------------------
\* Properties of the token list and of the parsed program
\* ------------------------------------------------------------------------
Lexed == fe_stage \in {"lexed", "parsed"}
Count(kind) == Cardinality({i \in 1..Len(lx_tokens) : lx_tokens[i].kind = kind})

\* C9: for every source, with or without lex errors, the token list lex()
\* returns ends with one Newline, then zero or more Dedent, then one Eof, and
\* holds no other Eof
C9_TokensEndNewlineDedentsEof ==
    Lexed =>
        /\ Count("Eof") = 1
        /\ \E d \in 0..(Len(lx_tokens) - 2) :
             /\ lx_tokens[Len(lx_tokens)].kind = "Eof"
             /\ \A i \in (Len(lx_tokens) - d)..(Len(lx_tokens) - 1) : lx_tokens[i].kind = "Dedent"
             /\ lx_tokens[Len(lx_tokens) - d - 1].kind = "Newline"

\* a source that ends in the middle of an indented line and has a lex error
C9_Witness ==
    /\ fe_stage = "lexed"
    /\ lx.errors # <<>>
    /\ Count("Dedent") > 0
    /\ lx.source[Len(lx.source)] = "a"

\* C10: for every source that lexes without errors, the token list holds as
\* many Indent tokens as Dedent tokens
C10_IndentsBalanceDedents ==
    (Lexed /\ lx.errors = <<>>) => Count("Indent") = Count("Dedent")

\* a clean source with leading-tab indentation and a tab within a line
C10_Witness ==
    /\ fe_stage = "lexed"
    /\ lx.errors = <<>>
    /\ Count("Indent") >= 2
    /\ lx.source[1] = "\t"
    /\ \E i \in 2..(Len(lx.source) - 1) : lx.source[i] = "a" /\ lx.source[i + 1] = "\t"

\* lex() is about to read a token that a tab follows directly (lines 107,
\* 136-156)
TabAfterToken ==
    /\ InLoop
    /\ ~EmptyLine
    /\ peek(LineStart.l) \notin {" ", "\t", "\n", "\r"}
    /\ next_token(LineStart.l).tok.kind # "Eof"
    /\ peek(next_token(LineStart.l).l) = "\t"

\* lex() has just answered a single tab that follows a token and spaces with a
\* Newline (lines 75-80), and the tab is still to be consumed; the rest of the
\* line holds a token
TabAfterSpaces ==
    /\ fe_stage = "lex"
    /\ lx_at_line_start
    /\ lx.pos > 0
    /\ peek(lx) = "\t"
    /\ peek_next(lx) # "\t"
    /\ lx.source[lx.pos] = " "
    /\ Len(lx_tokens) >= 2
    /\ lx_tokens[Len(lx_tokens)].kind = "Newline"
    /\ lx_tokens[Len(lx_tokens) - 1].kind \notin {"Newline", "Indent", "Dedent"}
    /\ ~EmptyLine

\* the tokens a step adds, with the Indent tokens it leaves pending
Emitted == SubSeq(lx_tokens', Len(lx_tokens) + 1, Len(lx_tokens')) \o lx'.pending_indents

\* C11: a tab within a line, after a token of that line, gives one Newline,
\* one new indentation level exactly one deeper than the top of the indent
\* stack and exactly one Indent before the next token, at every depth and
\* with or without spaces between the token and the tab
C11_TabInLineIndentsOneLevel ==
    [][/\ TabAfterToken =>
            /\ Len(lx_tokens') >= 3
            /\ lx_tokens'[Len(lx_tokens')].kind = "Indent"
            /\ lx_tokens'[Len(lx_tokens') - 1].kind = "Newline"
            /\ lx_tokens'[Len(lx_tokens') - 2].kind \notin {"Newline", "Indent", "Dedent"}
            /\ Len(lx'.indent_stack) >= 2
            /\ lx'.indent_stack[Len(lx'.indent_stack)]
                   = lx'.indent_stack[Len(lx'.indent_stack) - 1] + 1
       /\ TabAfterSpaces =>
            /\ Len(lx'.indent_stack) > Len(lx.indent_stack)
            /\ lx'.indent_stack[Len(lx.indent_stack) + 1]
                   = lx.indent_stack[Len(lx.indent_stack)] + 1
            /\ Emitted # <<>>
            /\ Emitted[1].kind = "Indent"
            /\ Len(Emitted) >= 2 => Emitted[2].kind # "Indent"]_vars

\* lex() is about to read a string literal
AtStringLiteral == InLoop /\ ~EmptyLine /\ peek(LineStart.l) = "\""
\* every string literal read so far had its closing quote
Terminated == \A i \in 1..Len(lx.errors) : lx.errors[i] # "unterminated string"
IsStringToken(t) == t.kind \in {"StrPart", "InterpIdent", "InterpPath"}
StringTokens == SelectSeq(Emitted, IsStringToken)

\* C12: the tokens of a string literal (one with its closing quote) have the
\* shape StrPart (hole StrPart)*: they begin and end with a StrPart and
\* alternate strictly with the hole tokens (InterpIdent or InterpPath), so k
\* holes come with k + 1 StrPart tokens and a literal without holes gives
\* exactly one StrPart
C12_StringTokensAlternate ==
    [][(AtStringLiteral /\ Terminated') =>
         /\ Len(StringTokens) % 2 = 1
         /\ \A i \in 1..Len(StringTokens) :
              (StringTokens[i].kind = "StrPart") = (i % 2 = 1)]_vars

\* C7: for `def f()`, a line break and an indented body, of which the lexer
\* makes the header tokens, Newline, Indent, the statements and Dedent, parse
\* returns the function with exactly those statements as its block, and no
\* parse error
C7_IndentedBodyIsTheBlock ==
    \A c \in IndentedCases :
        (/\ fe_stage = "parsed"
         /\ lx.source = c.source
         /\ lx_tokens[5].kind = "Newline"
         /\ lx_tokens[6].kind = "Indent"
         /\ lx_tokens[Len(lx_tokens) - 1].kind = "Dedent")
        => parse_out = [program |-> c.program, errors |-> <<>>]

\* C8: a statement of a function body that begins with an identifier or a
\* type keyword and is no := declaration is parsed as one expression
\* statement of the whole expression
C8_ExpressionStatementIsWhole ==
    \A c \in StatementCases :
        (fe_stage = "parsed" /\ lx.source = c.source) => parse_out.program = c.program

\* ------------------------------------------------------------------------
\* Properties of the emitted chunks
\* ------------------------------------------------------------------------
EmittedChunks == {pl_emit.chunks[k] : k \in 1..Len(pl_emit.chunks)}

\* the register operands of an instruction, by opcode
RegisterOperands(inst) ==
    CASE inst.op = "LOADK" -> {inst.a}
      [] inst.op = "MOVE" -> {inst.a, inst.b}
      [] inst.op \in BinaryOps -> {inst.a, inst.b, inst.c}
      [] inst.op \in UnaryOps -> {inst.a, inst.b}
      [] inst.op \in {"JIF", "RET", "PRINT"} -> {inst.a}
      [] inst.op = "CALL" -> {inst.a, inst.b} \cup {inst.b + i : i \in 1..inst.c}
      [] OTHER -> {}

\* C2: no path from instruction 0 of an emitted chunk reaches the end of the
\* code without executing a RET
C2_NoPathFallsOffTheEnd == \A k \in 1..Len(pl_flow) : ~FallsOffTheEnd(pl_flow[k])

\* C3: every JIF and JMP of an emitted chunk, at index i with displacement d,
\* has its target i + 1 + d within 0..code.len()
C3_JumpTargetsInRange ==
    \A k \in 1..Len(pl_flow) : \A j \in pl_flow[k].ctl :
        j.op \in {"JIF", "JMP"} => (0 <= j.i + 1 + j.d /\ j.i + 1 + j.d <= pl_flow[k].len)

\* C4: every register operand of every instruction of an emitted chunk is
\* less than the chunk's max_regs
C4_RegisterOperandsBelowMaxRegs ==
    \A c \in EmittedChunks : \A i \in 1..Len(c.code) :
        \A r \in RegisterOperands(c.code[i]) : r < c.max_regs

\* the statements of the body of the first function of the lowered program
LoweredBody == FuncBody(pl_hir.declarations[1]).kids

\* C5: in the lowered program 1, the declaration x := x + 1 in the loop body
\* carries the SymbolRef of the declaration x := 0 before the loop
C5_LoopDeclReusesOuterSymbol ==
    (pl_prog = 1 /\ pl_hir.ok) =>
        LoweredBody[2].kids[2].kids[1].sym = LoweredBody[1].sym

\* ------------------------------------------------------------------------
\* Properties of the VM
\* ------------------------------------------------------------------------
\* run() is about to execute a JMP, or a JIF whose condition register holds a
\* falsy value
AtJump ==
    /\ vm_state = "running"
    /\ frames # <<>>
    /\ HasInstruction(CurrentFrame)
    /\ \/ CurrentInstruction(CurrentFrame).op = "JMP"
       \/ /\ CurrentInstruction(CurrentFrame).op = "JIF"
          /\ CurrentInstruction(CurrentFrame).a < NumRegs(CurrentFrame)
          /\ ~is_truthy(Reg(CurrentFrame, CurrentInstruction(CurrentFrame).a))
\* i + 1 + d for the jump at index i with displacement d
JumpTarget == CurrentFrame.ip + 1 + offset(CurrentInstruction(CurrentFrame))

\* C13: JMP, or JIF on a falsy condition, at index i with displacement d sets
\* ip to i + 1 + d when that lies in 0..code.len(), and otherwise makes run()
\* return a runtime error
C13_JumpTargetCheckedAgainstCode ==
    [][AtJump =>
         IF JumpTarget >= 0 /\ JumpTarget <= Len(CurrentFrame.chunk.code)
         THEN /\ vm_state' = "running"
              /\ frames' = ReplaceTop(frames, [CurrentFrame EXCEPT !.ip = JumpTarget])
         ELSE /\ vm_state' = "idle"
              /\ vm_result'.kind = "err"]_vars

\* a JIF on a falsy register with a negative target has made run() fail
C13_Witness ==
    /\ vm_state = "idle"
    /\ vm_last = "JIF"
    /\ vm_result = Err("CallError")
    /\ frames # <<>>
    /\ CurrentFrame.ip + offset(CurrentFrame.chunk.code[CurrentFrame.ip]) < 0

\* run() is about to execute CALL a, b, c and registers b .. b+c exist
AtCall ==
    /\ vm_state = "running"
    /\ frames # <<>>
    /\ HasInstruction(CurrentFrame)
    /\ CurrentInstruction(CurrentFrame).op = "CALL"
    /\ CurrentInstruction(CurrentFrame).b + CurrentInstruction(CurrentFrame).c
           < NumRegs(CurrentFrame)
\* the values of registers b+1 .. b+c, in that order
CallArgs ==
    [i \in 1..CurrentInstruction(CurrentFrame).c |->
         Reg(CurrentFrame, CurrentInstruction(CurrentFrame).b + i)]
Callee == Reg(CurrentFrame, CurrentInstruction(CurrentFrame).b)

\* C14: CALL a, b, c calls the runtime only when register b holds a string,
\* with that name and exactly the values of registers b+1 .. b+c in order, and
\* stores the value returned in register a; when register b holds no string
\* run() fails with a call error and register a is not written
C14_CallDispatchesOnStringCallee ==
    [][AtCall =>
         IF Callee.t = "Str"
         THEN (vm_runtime /\ call_builtin(Callee.s, CallArgs).kind = "ok"
                          /\ CurrentInstruction(CurrentFrame).a < NumRegs(CurrentFrame))
                  => /\ vm_state' = "running"
                     /\ frames' = ReplaceTop(frames,
                            SetReg([CurrentFrame EXCEPT !.ip = @ + 1],
                                   CurrentInstruction(CurrentFrame).a,
                                   call_builtin(Callee.s, CallArgs).value))
         ELSE /\ vm_state' = "idle"
              /\ vm_result' = Err("CallError")
              /\ frames' = ReplaceTop(frames, [CurrentFrame EXCEPT !.ip = @ + 1])]_vars

\* rt_concat2 was called with "a" and "b" and its result stored
C14_Witness ==
    /\ vm_state = "running"
    /\ vm_last = "CALL"
    /\ frames # <<>>
    /\ CurrentFrame.chunk.code[CurrentFrame.ip] = Instr("CALL", 3, 0, 2)
    /\ Reg(CurrentFrame, 0) = StrV("rt_concat2")
    /\ Reg(CurrentFrame, 3) = StrV("ab")

\* C15: whenever run() returns, with Ok after RET or with Err after a failing
\* instruction, the frame that was executing has been removed from the frame
\* stack
C15_ReturnRemovesTheFrame ==
    [][(vm_state = "running" /\ vm_state' = "idle" /\ frames # <<>>)
           => frames' = PopFrame(frames)]_vars

\* the arithmetic instruction of an ArithChunk has just been executed on two
\* numbers
Left == Reg(CurrentFrame, 0)
Right == Reg(CurrentFrame, 1)
AfterArith == frames # <<>> /\ vm_last \in ArithOps /\ IsNum(Left) /\ IsNum(Right)

\* C16: DIVF and DIVI raise DivisionByZero whenever the right operand is Int(0)
\* or Double(0.0), whether the left operand is an Int or a Double, and produce
\* no value then
C16_DivisionByZeroIsRaised ==
    (AfterArith /\ vm_last \in {"DIVF", "DIVI"} /\ Right \in {IntV(0), DoubleV(0)})
        => /\ vm_state = "idle"
           /\ vm_result = Err("DivisionByZero")
           /\ Reg(CurrentFrame, 2) = NullV

\* DIVI of Int(2) by Double(0.0) has failed
C16_Witness ==
    /\ AfterArith
    /\ vm_last = "DIVI"
    /\ Left = IntV(2)
    /\ Right = DoubleV(0)
    /\ vm_result = Err("DivisionByZero")

\* C17: on numbers, ADD, SUB, MUL and MOD give an Int for two Int operands
\* and a Double when an operand is a Double; DIVF always gives a Double, DIVI
\* always an Int and POW always a Double
C17_ResultTypesAreClosed ==
    (AfterArith /\ vm_state = "running")
        => Reg(CurrentFrame, 2).t =
               CASE vm_last \in {"ADD", "SUB", "MUL", "MOD"} ->
                        IF Left.t = "Int" /\ Right.t = "Int" THEN "Int" ELSE "Double"
                 [] vm_last \in {"DIVF", "POW"} -> "Double"
                 [] vm_last = "DIVI" -> "Int"

\* MOD of Int(-7) by Double(2.0) has given Double(-1.0)
C17_Witness ==
    /\ AfterArith
    /\ vm_state = "running"
    /\ vm_last = "MOD"
    /\ Left = IntV(0 - 7)
    /\ Right = DoubleV(2)
    /\ Reg(CurrentFrame, 2) = DoubleV(0 - 1)

\* ------------------------------------------------------------------------
\* Properties of the constant pool
\* ------------------------------------------------------------------------
\* C18: add_constant(c) called twice in a row returns the same index both
\* times and the second call does not grow the pool
C18_AddConstantTwiceIsIdempotent ==
    \A i \in 1..(Len(ck_calls) - 1) :
        ck_calls[i].constant = ck_calls[i + 1].constant
            => /\ ck_calls[i + 1].idx = ck_calls[i].idx
               /\ ck_calls[i + 1].len = ck_calls[i].len

\* ------------------------------------------------------------------------
\* Properties of desugaring
\* ------------------------------------------------------------------------
Desugared == pl_stage \in {"desugared", "lowered", "lower_failed"}

\* the statement is an expression statement that assigns to obj.p: by an
\* Assign, by the binary operator = or by a postfix operator
IsAssignTo(stmt, p) ==
    /\ stmt.k = "Expr"
    /\ \/ stmt.kids[1].k \in {"Assign", "PostfixOp"}
       \/ stmt.kids[1].k = "BinaryOp" /\ stmt.kids[1].name = "Assign"
    /\ stmt.kids[1].kids[1].k = "MemberAccess"
    /\ stmt.kids[1].kids[1].name = p
    /\ stmt.kids[1].kids[1].kids[1].k = "Variable"
    /\ stmt.kids[1].kids[1].kids[1].name = "obj"

AssignsTo(statements, p) == {i \in 1..Len(statements) : IsAssignTo(statements[i], p)}

AstCtor == parse_out.program[1].kids[1]
HirCtor == pl_hir.declarations[1].kids[1]

\* C21: after desugaring a constructor, for each parameter p the body has
\* exactly the explicit top-level assignments to obj.p of the source when
\* there is one, and otherwise exactly one assignment to obj.p, the implicit
\* one, placed before the statements of the source
C21_OneAssignmentPerParameter ==
    (Desugared /\ parse_out.program[1].k = "ClassDecl") =>
        \A i \in 1..Len(FuncParams(AstCtor)) :
            LET p == FuncParams(AstCtor)[i].name
                explicit == AssignsTo(FuncBody(AstCtor).kids, p)
                now == AssignsTo(FuncBody(HirCtor).kids, p)
                added == Len(FuncBody(HirCtor).kids) - Len(FuncBody(AstCtor).kids)
            IN IF explicit # {}
               THEN now = {added + j : j \in explicit}
               ELSE Cardinality(now) = 1 /\ \A j \in now : j <= added

AstMatch == FuncBody(parse_out.program[1]).kids[1]
IsMatchProgram == parse_out.program[1].k = "FuncDecl" /\ AstMatch.k = "Match"
HirBody == FuncBody(pl_hir.declarations[1]).kids

RECURSIVE CaseTest(_, _, _, _)
\* temp == p1 || .. || temp == pn for the first n patterns
CaseTest(patterns, n, temp, span) ==
    LET eq == At(BinaryOp(temp, "Eq", patterns[n]), span)
    IN IF n = 1 THEN eq ELSE At(BinaryOp(CaseTest(patterns, n - 1, temp, span), "Or", eq), span)

RECURSIVE IfChain(_, _, _, _, _)
\* the chain for cases[i], cases[i + 1], ..: case i in the outermost if, the
\* later cases in its else branch, the else block innermost
IfChain(cases, i, temp, else_branch, span) ==
    IF i > Len(cases) THEN (IF else_branch = <<>> THEN <<>> ELSE else_branch[1].kids)
    ELSE <<At(If(CaseTest(FuncParams(cases[i]), Len(FuncParams(cases[i])), temp, span),
                 FuncBody(cases[i]),
                 IF i = Len(cases) THEN else_branch
                 ELSE <<At(Block(IfChain(cases, i + 1, temp, else_branch, span)), span)>>),
              span)>>

RECURSIVE Holds(_, _)
\* the condition of a chain, the temporary being v
Holds(condition, v) ==
    CASE condition.k = "Boolean" -> condition.n = 1
      [] condition.name = "Eq" -> condition.kids[2].n = v
      [] condition.name = "Or" -> Holds(condition.kids[1], v) \/ Holds(condition.kids[2], v)

RECURSIVE Runs(_, _, _)
\* the statements that run when the chain runs with the temporary being v; a
\* chain of depth 0 is a body
Runs(statements, depth, v) ==
    IF depth = 0 \/ statements = <<>> THEN statements
    ELSE IF Holds(statements[1].kids[1], v) THEN statements[1].kids[2].kids
    ELSE IF Len(statements[1].kids) = 2 THEN <<>>
    ELSE Runs(statements[1].kids[3].kids, depth - 1, v)

Matching(v) ==
    {i \in 1..Len(MatchCases(AstMatch)) :
        \E j \in 1..Len(FuncParams(MatchCases(AstMatch)[i])) :
            FuncParams(MatchCases(AstMatch)[i])[j].n = v}

\* C22: the if/else chain of a match has the first case outermost and each
\* later case in the else branch of the one before it, the else block
\* innermost; the body that runs is that of the first case in source order
\* with a pattern equal to the scrutinee, or the else block
C22_MatchChainFollowsSourceOrder ==
    (Desugared /\ IsMatchProgram) =>
        LET cases == MatchCases(AstMatch)
            else_branch == MatchElse(AstMatch)
            temp == At(Variable(HirBody[1].name), AstMatch.span)
            v == AstMatch.kids[1].n
        IN /\ HirBody[1].k = "VarDecl"
           /\ Tail(HirBody) = IfChain(cases, 1, temp, else_branch, AstMatch.span)
           /\ Runs(Tail(HirBody), Len(cases), v)
                = IF Matching(v) # {}
                  THEN FuncBody(cases[CHOOSE i \in Matching(v) : \A j \in Matching(v) : i <= j]).kids
                  ELSE IF else_branch = <<>> THEN <<>> ELSE else_branch[1].kids

\* two cases have the scrutinee among their patterns, and the first one's
\* body runs
C22_Witness ==
    /\ Desugared
    /\ IsMatchProgram
    /\ Matching(AstMatch.kids[1].n) = {1, 2}
    /\ MatchElse(AstMatch) # <<>>
    /\ Runs(Tail(HirBody), 2, AstMatch.kids[1].n) = FuncBody(MatchCases(AstMatch)[1]).kids

RECURSIVE OwnReferences(_, _)
\* the variable references of nodes[i], nodes[i + 1], ..: name and span
OwnReferences(nodes, i) ==
    IF i > Len(nodes) THEN {}
    ELSE (IF nodes[i].k = "Variable" THEN {<<nodes[i].name, nodes[i].span>>} ELSE {})
         \cup OwnReferences(nodes[i].kids, 1) \cup OwnReferences(nodes, i + 1)

\* C30: the names which desugaring introduces are bound where resolution
\* reaches them: every UndefinedVariable error of lowering is at a reference
\* which the source program itself makes
C30_SynthesizedNamesAreBound ==
    (pl_stage \in {"lowered", "lower_failed"} /\ parse_out.program # <<>>) =>
        \A k \in 1..Len(pl_hir.errors) :
            pl_hir.errors[k].kind = "UndefinedVariable"
                => <<pl_hir.errors[k].name, pl_hir.errors[k].span>>
                       \in OwnReferences(parse_out.program, 1)

\* ------------------------------------------------------------------------
\* Properties of the instruction word
\* ------------------------------------------------------------------------
\* C24: after set_offset(d), offset() is d, and the opcode and the operand a
\* of the instruction are what they were
C24_SetOffsetThenOffsetIsIdentity ==
    ck_calls # <<>> =>
        /\ Instruction_offset(ck.code[1]) = ck_calls[1].off
        /\ Instruction_opcode(ck.code[1]) = Instruction_opcode(ck_calls[1].inst)
        /\ Instruction_a(ck.code[1]) = Instruction_a(ck_calls[1].inst)

\* a negative displacement written over operands with all bits set
C24_Witness ==
    /\ ck_calls # <<>>
    /\ ck_calls[1].inst = Instruction_new(23, 255, 255, 255)
    /\ ck_calls[1].off = 0 - 257
    /\ Instruction_b(ck.code[1]) = 255
    /\ Instruction_c(ck.code[1]) = 254
    /\ Instruction_a(ck.code[1]) = 255

\* ------------------------------------------------------------------------
\* Properties of lower()
\* ------------------------------------------------------------------------
Lowered == pl_stage \in {"lowered", "lower_failed"}

RECURSIVE UnboundNames(_, _, _)
\* the names which nodes[i], nodes[i + 1], .. reference where no enclosing
\* scope has declared them, declared being the names declared before nodes[i]
\* in the scopes around it; the names a node declares are declared for the
\* nodes after it in its block, a function's parameters for its body
UnboundNames(nodes, i, declared) ==
    IF i > Len(nodes) THEN {}
    ELSE LET node == nodes[i]
             binds == IF node.k \in {"VarDecl", "Param", "FuncDecl"}
                      THEN declared \cup {node.name} ELSE declared
             here == IF node.k \in {"Variable", "Ident"} /\ node.name \notin declared \cup BUILTINS
                     THEN {node.name} ELSE {}
         IN here \cup UnboundNames(node.kids, 1, binds) \cup UnboundNames(nodes, i + 1, binds)

\* C19: a reference to a name which no enclosing scope has declared at that
\* point and which is no built-in makes lowering record UndefinedVariable
\* with that name, and lower() return Err
C19_UnboundNameIsUndefinedVariable ==
    Lowered =>
        \A name \in UnboundNames(pl_hir.declarations, 1, {}) :
            /\ ~pl_hir.ok
            /\ \E k \in 1..Len(pl_hir.errors) :
                 pl_hir.errors[k].kind = "UndefinedVariable" /\ pl_hir.errors[k].name = name

\* the declarations of the module scope, of the scope of the parameters of
\* the first function and of the scope of its body, each in source order
DeclaringScopes ==
    {SelectSeq(scope, LAMBDA node : node.k \in {"VarDecl", "Param", "FuncDecl"}) :
        scope \in {pl_hir.declarations,
                   FuncParams(pl_hir.declarations[1]),
                   FuncBody(pl_hir.declarations[1]).kids}}

\* C20: a name declared a second time in the same scope gives a
\* DuplicateSymbol error with the span of the first declaration as
\* original_span and the span of the second as duplicate_span
C20_DuplicateSymbolHasBothSpans ==
    Lowered =>
        \A scope \in DeclaringScopes :
            \A i, j \in 1..Len(scope) :
                (/\ i < j
                 /\ scope[i].name = scope[j].name
                 /\ \A h \in 1..(j - 1) : scope[h].name = scope[i].name => h = i)
                    => \E k \in 1..Len(pl_hir.errors) :
                         pl_hir.errors[k] = DuplicateSymbol(scope[i].name, scope[i].span, scope[j].span)

\* ------------------------------------------------------------------------
\* Properties of the emitted control flow and registers (SpecPipeline)
\* ------------------------------------------------------------------------
Ran(p) == pl_prog = p /\ pl_stage = "done"

\* the jumps of the first emitted chunk and where they lead
MainJumps(op) == {j \in pl_flow[1].ctl : j.op = op}
TargetOf(j) == j.i + 1 + j.d

\* C25: in program 14, whose two if/else statements are not in tail position,
\* every JIF targets the instruction right after a JMP, that JMP leads forward
\* past the else block, and the run executes the then block of the truthy
\* condition and the else block of the falsy one: it returns 1 + 20
C25_IfElseRunsExactlyOneBranch ==
    /\ (pl_prog = 14 /\ pl_stage \in {"emitted", "loaded", "running", "done"}) =>
          \A j \in MainJumps("JIF") :
              \E m \in MainJumps("JMP") : TargetOf(j) = m.i + 1 /\ TargetOf(m) > TargetOf(j)
    /\ Ran(14) => vm_result = Ok(IntV(21))

\* C26: the code of c ? a : b leaves a's value in the target register when c
\* is truthy and b's when c is falsy, and the instruction after the ternary's
\* code runs: program 19 returns 1 (the MOVE and RET after its ternary run),
\* program 5 stores 2 through its first ternary and returns 7 from its second
C26_TernaryResumesRightAfterItsCode ==
    /\ Ran(19) => vm_result = Ok(IntV(1))
    /\ Ran(5) => vm_result = Ok(IntV(7))

\* the parameters of function f and the locals its body declares at its top
\* level: all of them are in scope to the end of the body
FunctionLocations(f) ==
    FuncParams(f) \o SelectSeq(FuncBody(f).kids, LAMBDA st : st.k = "VarDecl")

\* C27: the parameters and the top-level locals of an emitted function have
\* pairwise different registers, so that program 18, run with its parameter
\* unset, returns Null whatever it stores into its local
C27_LiveLocationsHaveDistinctRegisters ==
    /\ (pl_hir.ok /\ pl_stage \in {"emitted", "loaded", "running", "done"}) =>
          \A k \in 1..Len(pl_hir.declarations) :
              pl_hir.declarations[k].k = "FuncDecl" =>
                  LET locs == FunctionLocations(pl_hir.declarations[k])
                  IN \A i, j \in 1..Len(locs) :
                        i # j => locs[i].sym % (U8_MAX + 1) # locs[j].sym % (U8_MAX + 1)
    /\ Ran(18) => vm_result = Ok(NullV)

\* C29: x++ as a tail expression returns the incremented value (program 15),
\* as the tail expression x = x + 1 does (program 16), and it stores the
\* incremented value into x (program 17)
C29_PostfixIncrementYieldsItsValue ==
    /\ Ran(15) => vm_result = Ok(IntV(6))
    /\ Ran(16) => vm_result = Ok(IntV(6))
    /\ Ran(17) => vm_result = Ok(IntV(6))

\* C28: every iteration of the loop of parse and of the loop of parse_block
\* which does not leave its loop consumes at least one token
C28_EveryIterationConsumesAToken ==
    [][(parser_at \in {"parse", "parse_block"} /\ parser_at' = parser_at)
          => parser'.current > parser.current]_vars

\* run_code has returned
Returned == pl_stage \in {"lex_failed", "parse_failed", "lower_failed", "panicked", "done"}

\* C23: run_code on the empty source returns at its end, not at the lex,
\* parse or lowering errors, having emitted no chunk, and its result is Null
C23_EmptySourceRunsToNull ==
    (lx.source = <<>> /\ Returned) =>
        /\ lx.errors = <<>>
        /\ parse_out.errors = <<>>
        /\ pl_hir.ok /\ pl_hir.errors = <<>>
        /\ pl_emit.chunks = <<>>
        /\ pl_stage = "done"
        /\ vm_result = Ok(NullV)

\* C6: program 1 returns Int(3)
C6_WhileLoopReturnsThree ==
    (pl_prog = 1 /\ pl_stage = "done") => vm_result = Ok(IntV(3))

\* C1: when run() returns Ok after executing RET, the frame stack is empty:
\* with frames remaining beneath the returning one, run() would go on with
\* the frame beneath instead of returning
C1_RetReturnsOnlyFromOutermost ==
    (vm_state = "idle" /\ vm_result.kind = "ok" /\ vm_last = "RET") => frames = <<>>

====
